---- MODULE Spec2Model ----
(***************************************************************************)
(* A model of graby-ts: the ContentExtractor pipeline (metadata merge,     *)
(* rule application, readability fallback, post-processing) and the Graby  *)
(* front end that fetches pages and assembles multi-page articles.         *)
(*                                                                         *)
(* Collaborators that the code only calls (DOM parser, XPath evaluation,   *)
(* Readability, the transport) are inputs: a parsed document is a record   *)
(* of what each query of the code returns on it.                           *)
(***************************************************************************)
EXTENDS Integers, Sequences, FiniteSets, TLC

(***************************************************************************)
(* Bounds of the model.                                                    *)
(***************************************************************************)
MaxExprs == 2
MaxBlocks == 2
MaxCalls == 2
MaxLimit == 3
MaxNames == 2

(***************************************************************************)
(* JavaScript values.  null is a sentinel string; '' is the empty string.  *)
(***************************************************************************)
Null == "<null>"
NoMeta == "<no element>"

Truthy(s) == s # Null /\ s # ""

NullLink == [k |-> "null", d |-> 0, n |-> 0]

SeqsUpTo(S, n) == UNION {[1..m -> S] : m \in 0..n}

(***************************************************************************)
(* date-fns: parseISO(date) followed by format(.., "yyyy-MM-dd'T'HH:mm:ssXXX") *)
(* in a process whose zone is UTC.  An unparsable string gives an Invalid  *)
(* Date, on which format throws.                                           *)
(***************************************************************************)
ParsesAsIso(d) == d \in {"2023-08-15", "2023-08-15T12:30:00+02:00", "2024-01-02T03:04:05Z"}

FormatIso(d) ==
  CASE d = "2023-08-15" -> "2023-08-15T00:00:00Z"
    [] d = "2023-08-15T12:30:00+02:00" -> "2023-08-15T10:30:00Z"
    [] OTHER -> d

(***************************************************************************)
(* DOMPurify with the allow-list of applySiteConfig and KEEP_CONTENT: an   *)
(* element whose tag is not allowed is dropped and its content is kept as  *)
(* text.  A node is [k, id], k in "el" (allowed element), "bad" (element   *)
(* of a tag outside the list, holding text), "text".                       *)
(***************************************************************************)
SanitizeNode(nd) == IF nd.k = "bad" THEN [nd EXCEPT !.k = "text"] ELSE nd

Sanitize(nodes) == [i \in 1..Len(nodes) |-> SanitizeNode(nodes[i])]

(***************************************************************************)
(* ContentExtractor.  An extractor is the record of its private fields;    *)
(* authors holds the identity of an array of the heap h, because getResult *)
(* hands that very array to the caller.  The operators below act on a pair *)
(* [e |-> extractor, h |-> heap].                                          *)
(***************************************************************************)
NoContent == [present |-> FALSE, nodes |-> <<>>]

NewExtractor ==
  [title |-> Null, content |-> NoContent, authors |-> 0, date |-> Null,
   language |-> Null, image |-> Null, isNativeAd |-> FALSE,
   nextPageUrl |-> NullLink, singlePageUrl |-> NullLink, success |-> FALSE]

\* constructor: the field initialiser authors = [] allocates an array
Construct(h) == [e |-> [NewExtractor EXCEPT !.authors = Len(h) + 1], h |-> Append(h, <<>>)]

\* reset that leaves authors alone
reset_keepsAuthors(s) ==
  [e |-> [NewExtractor EXCEPT !.authors = s.e.authors], h |-> s.h]

reset(s) ==
  [e |-> [NewExtractor EXCEPT !.authors = Len(s.h) + 1], h |-> Append(s.h, <<>>)]

extractBasicMetadata(s, doc) ==
  LET lang == IF doc.htmlLang # NoMeta THEN doc.htmlLang ELSE s.e.language
      ttl == IF ~Truthy(s.e.title) /\ Truthy(doc.docTitle) THEN doc.docTitle ELSE s.e.title
  IN [s EXCEPT !.e.language = lang, !.e.title = ttl]

\* Open Graph title used only when the document has no <title>
extractOpenGraph_titleIfUnset(s, doc) ==
  LET ttl == IF doc.ogTitle # NoMeta /\ Truthy(doc.ogTitle) /\ ~Truthy(s.e.title) THEN doc.ogTitle ELSE s.e.title
      img == IF doc.ogImage # NoMeta THEN doc.ogImage ELSE s.e.image
      lang == IF doc.ogLocale # NoMeta /\ Truthy(doc.ogLocale) THEN doc.ogLocale ELSE s.e.language
      dt == IF doc.ogDate # NoMeta THEN doc.ogDate ELSE s.e.date
  IN [s EXCEPT !.e.title = ttl, !.e.image = img, !.e.language = lang, !.e.date = dt]

extractOpenGraph(s, doc) ==
  LET ttl == IF doc.ogTitle # NoMeta /\ Truthy(doc.ogTitle) THEN doc.ogTitle ELSE s.e.title
      img == IF doc.ogImage # NoMeta THEN doc.ogImage ELSE s.e.image
      lang == IF doc.ogLocale # NoMeta /\ Truthy(doc.ogLocale) THEN doc.ogLocale ELSE s.e.language
      dt == IF doc.ogDate # NoMeta THEN doc.ogDate ELSE s.e.date
  IN [s EXCEPT !.e.title = ttl, !.e.image = img, !.e.language = lang, !.e.date = dt]

\* a block whose headline and date only fill what is still unset
JsonLdBlock_fillOnly(s, b) ==
  IF ~b.valid \/ b.type \notin {"Article", "NewsArticle"} THEN s
  ELSE
    LET ttl == IF Truthy(b.headline) /\ ~Truthy(s.e.title) THEN b.headline ELSE s.e.title
        dt == IF Truthy(b.datePublished) /\ ~Truthy(s.e.date) THEN b.datePublished ELSE s.e.date
        pushed == IF b.author.k = "str" /\ Truthy(b.author.v) THEN <<b.author.v>>
                  ELSE IF b.author.k = "obj" /\ Truthy(b.author.v) THEN <<b.author.v>>
                  ELSE <<>>
    IN [e |-> [s.e EXCEPT !.title = ttl, !.date = dt],
        h |-> [s.h EXCEPT ![s.e.authors] = @ \o pushed]]

\* one <script type="application/ld+json"> block; JSON.parse throwing is ignored
JsonLdBlock(s, b) ==
  IF ~b.valid \/ b.type \notin {"Article", "NewsArticle"} THEN s
  ELSE
    LET ttl == IF Truthy(b.headline) THEN b.headline ELSE s.e.title
        dt == IF Truthy(b.datePublished) THEN b.datePublished ELSE s.e.date
        pushed == IF b.author.k = "str" /\ Truthy(b.author.v) THEN <<b.author.v>>
                  ELSE IF b.author.k = "obj" /\ Truthy(b.author.v) THEN <<b.author.v>>
                  ELSE <<>>
    IN [e |-> [s.e EXCEPT !.title = ttl, !.date = dt],
        h |-> [s.h EXCEPT ![s.e.authors] = @ \o pushed]]

RECURSIVE JsonLdFrom(_, _, _)
JsonLdFrom(s, blocks, i) ==
  IF i > Len(blocks) THEN s ELSE JsonLdFrom(JsonLdBlock(s, blocks[i]), blocks, i + 1)

extractJsonLd(s, doc) == JsonLdFrom(s, doc.jsonld, 1)

extractMetadata(s, doc) == extractJsonLd(extractOpenGraph(extractBasicMetadata(s, doc), doc), doc)

(***************************************************************************)
(* Link extraction.  A link value is [k, d, n]: "null", "empty" (''),      *)
(* "abs" (the absolute URL of page n in directory d), "rel" (the relative  *)
(* reference n) or "bad" (a string URLParse throws on).  A pattern of the  *)
(* rule set is [gate, nodes]: gate says whether if_page_contains has an    *)
(* entry for the pattern and whether it matched; nodes are the elements    *)
(* the pattern matched, each [href, value, text] (NullLink: no such        *)
(* attribute / no string-valued property).                                 *)
(***************************************************************************)
TruthyLink(l) == l.k \notin {"null", "empty"}

\* the body of "for (const node of result)": every element has textContent,
\* so the first node always ends the loop
LinkOfNodes(nodes) ==
  LET nd == nodes[1]
  IN IF nd.href # NullLink THEN nd.href
     ELSE IF nd.value # NullLink THEN nd.value
     ELSE IF nd.text.k = "empty" THEN NullLink ELSE nd.text

RECURSIVE LinkFrom(_, _, _)
LinkFrom(cur, pats, i) ==
  IF i > Len(pats) THEN cur
  ELSE IF pats[i].gate = "fail" \/ Len(pats[i].nodes) = 0 THEN LinkFrom(cur, pats, i + 1)
  ELSE LET v == LinkOfNodes(pats[i].nodes)
       IN IF TruthyLink(v) THEN v ELSE LinkFrom(v, pats, i + 1)

extractSinglePageUrl(s, doc) ==
  [s EXCEPT !.e.singlePageUrl = LinkFrom(s.e.singlePageUrl, doc.rules.single, 1)]

extractNextPageUrl(s, doc) ==
  [s EXCEPT !.e.nextPageUrl = LinkFrom(s.e.nextPageUrl, doc.rules.next, 1)]

(***************************************************************************)
(* applySiteConfig.  doc.rules.title[i] is the list of text contents of    *)
(* the nodes title expression i matches, doc.rules.native[i] the number of *)
(* nodes native_ad_clue expression i matches, doc.rules.body[i] the nodes  *)
(* body expression i matches once wrap_in and strip have been applied.     *)
(***************************************************************************)
RECURSIVE FirstMatch(_, _)
FirstMatch(results, i) ==
  IF i > Len(results) THEN 0
  ELSE IF Len(results[i]) > 0 THEN i ELSE FirstMatch(results, i + 1)

RuleTitle(s, doc) ==
  LET i == FirstMatch(doc.rules.title, 1)
  IN IF i = 0 THEN s
     ELSE [s EXCEPT !.e.title = IF doc.rules.title[i][1] = "" THEN Null ELSE doc.rules.title[i][1]]

RuleNativeAd(s, doc) ==
  IF \E i \in 1..Len(doc.rules.native) : doc.rules.native[i] > 0
  THEN [s EXCEPT !.e.isNativeAd = TRUE] ELSE s

RuleBody(s, doc) ==
  LET i == FirstMatch(doc.rules.body, 1)
  IN IF i = 0 THEN s
     ELSE [s EXCEPT !.e.content = [present |-> TRUE, nodes |-> doc.rules.body[i]]]

applySiteConfig(s, doc) == RuleBody(RuleNativeAd(RuleTitle(s, doc), doc), doc)

(***************************************************************************)
(* applyReadability.  doc.readability is what Readability.parse() gives:   *)
(* ok = FALSE for null (or a throw, which is caught).                      *)
(***************************************************************************)
\* applyReadability that takes title, date and authors from the article
\* whatever is already set
applyReadability_overwrites(s, doc) ==
  LET a == doc.readability
  IN IF ~a.ok THEN s
     ELSE
       LET fill == ~s.e.content.present
           newArr == Truthy(a.byline)
       IN [e |-> [s.e EXCEPT !.title = IF Truthy(a.title) THEN a.title ELSE Null,
                             !.content = IF fill THEN [present |-> TRUE, nodes |-> a.content] ELSE @,
                             !.success = IF fill THEN TRUE ELSE @,
                             !.date = IF Truthy(a.publishedTime) THEN a.publishedTime ELSE @,
                             !.authors = IF newArr THEN Len(s.h) + 1 ELSE @],
           h |-> IF newArr THEN Append(s.h, <<a.byline>>) ELSE s.h]

applyReadability(s, doc) ==
  LET a == doc.readability
  IN IF ~a.ok THEN s
     ELSE
       LET ttl == IF ~Truthy(s.e.title) THEN (IF Truthy(a.title) THEN a.title ELSE Null) ELSE s.e.title
           fill == ~s.e.content.present
           dt == IF ~Truthy(s.e.date) /\ Truthy(a.publishedTime) THEN a.publishedTime ELSE s.e.date
           newArr == Len(s.h[s.e.authors]) = 0 /\ Truthy(a.byline)
       IN [e |-> [s.e EXCEPT !.title = ttl,
                             !.content = IF fill THEN [present |-> TRUE, nodes |-> a.content] ELSE @,
                             !.success = IF fill THEN TRUE ELSE @,
                             !.date = dt,
                             !.authors = IF newArr THEN Len(s.h) + 1 ELSE @],
           h |-> IF newArr THEN Append(s.h, <<a.byline>>) ELSE s.h]

postProcess(s, enableXss) ==
  LET c == IF s.e.content.present /\ enableXss
           THEN [s.e.content EXCEPT !.nodes = Sanitize(@)] ELSE s.e.content
      dt == IF Truthy(s.e.date) /\ ParsesAsIso(s.e.date) THEN FormatIso(s.e.date) ELSE s.e.date
  IN [s EXCEPT !.e.content = c, !.e.date = dt]

(***************************************************************************)
(* process, in its two synchronous parts: up to the await of the rule      *)
(* provider (taken only when no rule set was passed), and from the parse   *)
(* of the document to the return.                                          *)
(***************************************************************************)
\* process that leaves the success flag to applyReadability
ProcessRest_noSuccess(s, doc, enableXss) ==
  LET m == extractMetadata(s, doc)
      r == IF doc.rules.has
           THEN applySiteConfig(extractNextPageUrl(extractSinglePageUrl(m, doc), doc), doc)
           ELSE m
      f == IF ~r.e.content.present THEN applyReadability(r, doc) ELSE r
  IN IF f.e.content.present THEN postProcess(f, enableXss) ELSE f

\* process that runs the post-processing and sets success whatever was found
ProcessRest_always(s, doc, enableXss) ==
  LET m == extractMetadata(s, doc)
      r == IF doc.rules.has
           THEN applySiteConfig(extractNextPageUrl(extractSinglePageUrl(m, doc), doc), doc)
           ELSE m
      f == IF ~r.e.content.present THEN applyReadability(r, doc) ELSE r
  IN [postProcess(f, enableXss) EXCEPT !.e.success = TRUE]

ProcessRest(s, doc, enableXss) ==
  LET m == extractMetadata(s, doc)
      r == IF doc.rules.has
           THEN applySiteConfig(extractNextPageUrl(extractSinglePageUrl(m, doc), doc), doc)
           ELSE m
      f == IF ~r.e.content.present THEN applyReadability(r, doc) ELSE r
  IN IF f.e.content.present
     THEN [postProcess(f, enableXss) EXCEPT !.e.success = TRUE]
     ELSE f

process(s, doc, enableXss) == ProcessRest(reset(s), doc, enableXss)

getContentAsHtml(e) == IF ~e.content.present THEN <<>> ELSE e.content.nodes

getResult(e) ==
  [title |-> IF Truthy(e.title) THEN e.title ELSE "",
   html |-> getContentAsHtml(e),
   authors |-> e.authors,
   date |-> e.date,
   language |-> e.language,
   image |-> e.image,
   nextPageUrl |-> e.nextPageUrl,
   isNativeAd |-> e.isNativeAd,
   success |-> e.success]

(***************************************************************************)
(* Documents the extractor is run on.                                      *)
(***************************************************************************)
XTitle == <<"xpath title 1", "xpath title 2", "xpath title 3">>
LdHeadline == <<"ld headline 1", "ld headline 2", "ld headline 3">>

TitleResultsAt(i) == {<<>>, <<"">>, <<XTitle[i], "second node">>}

TitleRuleLists ==
  {r \in SeqsUpTo(UNION {TitleResultsAt(i) : i \in 1..MaxExprs}, MaxExprs) :
     \A i \in 1..Len(r) : r[i] \in TitleResultsAt(i)}

NoAuthor == [k |-> "none", v |-> Null]

LdBlocksAt(i) ==
  {[valid |-> TRUE, type |-> "Article", headline |-> LdHeadline[i],
    datePublished |-> "2023-08-15T12:30:00+02:00", author |-> [k |-> "str", v |-> "ann"]],
   [valid |-> TRUE, type |-> "NewsArticle", headline |-> LdHeadline[i],
    datePublished |-> Null, author |-> [k |-> "obj", v |-> "bob"]],
   [valid |-> TRUE, type |-> "WebPage", headline |-> "site name",
    datePublished |-> "2024-01-02T03:04:05Z", author |-> [k |-> "str", v |-> "webmaster"]],
   [valid |-> FALSE, type |-> Null, headline |-> Null, datePublished |-> Null, author |-> NoAuthor]}

LdLists ==
  {r \in SeqsUpTo(UNION {LdBlocksAt(i) : i \in 1..MaxBlocks}, MaxBlocks) :
     \A i \in 1..Len(r) : r[i] \in LdBlocksAt(i)}

RuleNodes(i) == <<[k |-> "el", id |-> 10 * i + 1], [k |-> "bad", id |-> 10 * i + 2]>>
ReadabilityNodes == <<[k |-> "el", id |-> 91]>>

BodyRuleLists == {<<>>, <<<<>>, <<>>>>, <<<<>>, RuleNodes(2)>>, <<RuleNodes(1), RuleNodes(2)>>}

NoArticle == [ok |-> FALSE, title |-> Null, content |-> <<>>, byline |-> Null, publishedTime |-> Null]

Articles ==
  {NoArticle,
   [ok |-> TRUE, title |-> "readability title", content |-> ReadabilityNodes,
    byline |-> "readability byline", publishedTime |-> "2024-01-02T03:04:05Z"],
   [ok |-> TRUE, title |-> "", content |-> ReadabilityNodes, byline |-> Null, publishedTime |-> Null]}

NoRules == [has |-> FALSE, title |-> <<>>, native |-> <<>>, body |-> <<>>, next |-> <<>>, single |-> <<>>]

MkDoc(dt, ogt, lang, loc, img, ogd, ld, rules, art) ==
  [docTitle |-> dt, ogTitle |-> ogt, htmlLang |-> lang, ogLocale |-> loc, ogImage |-> img,
   ogDate |-> ogd, jsonld |-> ld, rules |-> rules, readability |-> art]

RuleSets(titles, bodies) ==
  {[has |-> TRUE, title |-> t, native |-> n, body |-> b, next |-> <<>>, single |-> <<>>] :
     t \in titles, b \in bodies, n \in {<<0, 1>>}}

\* every title source against every JSON-LD list and body source
TitleDocs ==
  {MkDoc(dt, ogt, "en", "en_US", "https://x.com/og.jpg", "2023-08-15", ld, r, a) :
     dt \in {"", "document title"}, ogt \in {NoMeta, "og title"}, ld \in LdLists,
     r \in RuleSets(TitleRuleLists, BodyRuleLists), a \in Articles}

\* every date source against every JSON-LD list and body source
DateDocs ==
  {MkDoc("document title", "og title", NoMeta, NoMeta, "https://x.com/og.jpg", ogd, ld, r, a) :
     ogd \in {NoMeta, "2023-08-15", "last tuesday"}, ld \in LdLists,
     r \in RuleSets({<<>>}, BodyRuleLists), a \in Articles}

\* language and image sources, with and without a rule set
MiscDocs ==
  {MkDoc(dt, ogt, lang, loc, img, NoMeta, ld, r, a) :
     dt \in {"", "document title"}, ogt \in {NoMeta, "", "og title"}, lang \in {NoMeta, "en"},
     loc \in {NoMeta, "en_US"}, img \in {NoMeta, Null, "https://x.com/og.jpg"},
     ld \in {l \in LdLists : Len(l) <= 1}, r \in {NoRules} \cup RuleSets({<<>>}, {<<>>}),
     a \in Articles}

Docs == TitleDocs \cup DateDocs \cup MiscDocs

\* the documents used when one extractor is run several times: each source
\* either absent or present
LinkNode(l) == [href |-> l, value |-> NullLink, text |-> NullLink]
Url(d, n) == [k |-> "abs", d |-> d, n |-> n]
Rel(n) == [k |-> "rel", d |-> 0, n |-> n]

FullRules ==
  [has |-> TRUE, title |-> <<<<XTitle[1]>>>>, native |-> <<1>>, body |-> <<RuleNodes(1)>>,
   next |-> <<[gate |-> "none", nodes |-> <<LinkNode(Rel(2))>>]>>,
   single |-> <<[gate |-> "pass", nodes |-> <<LinkNode(Url(1, 3))>>]>>]

EmptyRules ==
  [has |-> TRUE, title |-> <<<<>>>>, native |-> <<0>>, body |-> <<<<>>>>,
   next |-> <<[gate |-> "fail", nodes |-> <<LinkNode(Rel(2))>>]>>, single |-> <<>>]

FullArticle ==
  [ok |-> TRUE, title |-> "readability title", content |-> ReadabilityNodes,
   byline |-> "readability byline", publishedTime |-> "2024-01-02T03:04:05Z"]

ReuseDocs ==
  {MkDoc("", NoMeta, NoMeta, NoMeta, NoMeta, NoMeta, ld, r, a) :
     ld \in {l \in LdLists : Len(l) = 0 \/ (Len(l) = 1 /\ l[1].type = "NewsArticle")},
     r \in {NoRules, FullRules, EmptyRules},
     a \in {NoArticle, FullArticle}}
  \cup
  {MkDoc("document title", "og title", "en", "en_US", "https://x.com/og.jpg", "2023-08-15", ld, r, a) :
     ld \in {l \in LdLists : Len(l) = 0 \/ (Len(l) = 1 /\ l[1].type = "Article")},
     r \in {NoRules, FullRules, EmptyRules},
     a \in {NoArticle, FullArticle}}

NoDoc == MkDoc("", NoMeta, NoMeta, NoMeta, NoMeta, NoMeta, <<>>, NoRules, NoArticle)

(***************************************************************************)
(* State.                                                                  *)
(*   extractor, arrays : a ContentExtractor (Graby.extractor when driven   *)
(*                       by Graby) and the heap of authors arrays          *)
(*   ce                : a caller driving the extractor directly           *)
(*   options           : the options of the Graby instance                 *)
(*   calls             : the extract / extractFromHtml calls in progress   *)
(*                       on the Graby instance, each with its locals       *)
(*   util              : a direct call of a static utility (DomUtils,      *)
(*                       EncodingUtils): its arguments, then its result    *)
(***************************************************************************)
VARIABLES extractor, arrays, ce, options, calls, util

vars == <<extractor, arrays, ce, options, calls, util>>

\* no static utility is being called
NoUtil == [pc |-> "unused"]

DefaultOptions == [multipage |-> TRUE, multipageLimit |-> 10, enableXss |-> TRUE]

InitCE ==
  /\ extractor = Construct(<<>>).e
  /\ arrays = Construct(<<>>).h
  /\ \E x \in BOOLEAN :
       ce = [pc |-> "idle", doc |-> NoDoc, enableXss |-> x, ret |-> FALSE, calls |-> 0, held |-> <<>>]
  /\ options = DefaultOptions
  /\ calls = <<>>
  /\ util = NoUtil

\* process(html, url, siteConfig) up to its first suspension: with a rule set
\* passed it runs to its return, otherwise it awaits the rule provider
ProcessCall(D, limit) ==
  /\ ce.pc = "idle"
  /\ ce.calls < limit
  /\ \E doc \in D, given \in BOOLEAN :
       /\ given => doc.rules.has
       /\ LET s == IF given THEN process([e |-> extractor, h |-> arrays], doc, ce.enableXss)
                   ELSE reset([e |-> extractor, h |-> arrays])
          IN /\ extractor' = s.e
             /\ arrays' = s.h
             /\ ce' = [ce EXCEPT !.pc = IF given THEN "returned" ELSE "awaitConfig",
                                 !.doc = doc, !.calls = @ + 1, !.ret = s.e.success]
             /\ UNCHANGED <<options, calls, util>>

\* the rule provider has answered
ProcessResume ==
  /\ ce.pc = "awaitConfig"
  /\ LET s == ProcessRest([e |-> extractor, h |-> arrays], ce.doc, ce.enableXss)
     IN /\ extractor' = s.e
        /\ arrays' = s.h
        /\ ce' = [ce EXCEPT !.pc = "returned", !.ret = s.e.success]
        /\ UNCHANGED <<options, calls, util>>

\* the caller takes the result
GetResultCall ==
  /\ ce.pc = "returned"
  /\ ce' = [ce EXCEPT !.pc = "idle", !.held = Append(@, getResult(extractor))]
  /\ UNCHANGED <<extractor, arrays, options, calls, util>>

NextCE == ProcessCall(Docs, 1) \/ ProcessResume \/ GetResultCall

SpecCE == InitCE /\ [][NextCE]_vars

NextReuse == ProcessCall(ReuseDocs, MaxCalls) \/ ProcessResume \/ GetResultCall

SpecReuse == InitCE /\ [][NextReuse]_vars

(***************************************************************************)
(* Graby.  Pages live at Url(d, n), d a directory and n a name; a relative *)
(* reference Rel(n) names page n of the directory of its base.             *)
(***************************************************************************)
Dirs == {1, 2}
Names == 1..MaxNames

StartUrl == Url(1, 1)
RedirectedUrl == Url(2, 1)

BadLink == [k |-> "bad", d |-> 0, n |-> 0]

PageLinks ==
  {NullLink, BadLink} \cup {Rel(n) : n \in Names} \cup {Url(d, n) : d \in Dirs, n \in Names}

\* the elements and text nodes page u holds at the top level of its body
PageShapes == {<<"el">>, <<"el", "el">>, <<"text">>}

PageNodes(u, shape) ==
  [i \in 1..Len(shape) |-> [k |-> shape[i], id |-> 100 * u.d + 10 * u.n + i]]

PageTitle(u) == "page " \o ToString(u.d) \o "/" \o ToString(u.n)

LinkRule(l) == IF l = NullLink THEN <<>> ELSE <<[gate |-> "none", nodes |-> <<LinkNode(l)>>]>>

\* a page whose rule set matches the body and finds the links next and single
RulePage(u, shape, next, single) ==
  MkDoc(PageTitle(u), NoMeta, NoMeta, NoMeta, NoMeta, NoMeta, <<>>,
        [has |-> TRUE, title |-> <<>>, native |-> <<>>, body |-> <<PageNodes(u, shape)>>,
         next |-> LinkRule(next), single |-> LinkRule(single)],
        NoArticle)

\* a page whose rule set matches no body; art is what Readability gives
FallbackPage(u, next, art) ==
  MkDoc(PageTitle(u), NoMeta, NoMeta, NoMeta, NoMeta, NoMeta, <<>>,
        [has |-> TRUE, title |-> <<>>, native |-> <<>>, body |-> <<<<>>>>,
         next |-> LinkRule(next), single |-> <<>>],
        art)

\* a page of a host the rule provider has nothing for
PlainPage(u, art) ==
  MkDoc(PageTitle(u), NoMeta, NoMeta, NoMeta, NoMeta, NoMeta, <<>>, NoRules, art)

PageArticle(u) ==
  [ok |-> TRUE, title |-> "readability title", content |-> PageNodes(u, <<"el">>),
   byline |-> Null, publishedTime |-> Null]

PagesAt(u) ==
  {RulePage(u, <<"el">>, l, NullLink) : l \in PageLinks}
  \cup {RulePage(u, sh, l, NullLink) : sh \in PageShapes, l \in {NullLink, Rel(2)}}
  \cup {FallbackPage(u, l, a) : l \in {NullLink, Rel(2)}, a \in {NoArticle, PageArticle(u)}}
  \cup {PlainPage(u, PageArticle(u))}

FirstPagesAt(u) ==
  PagesAt(u) \cup {RulePage(u, <<"el">>, l, s) : l \in {NullLink, Rel(2)}, s \in {Rel(2), Url(2, 2)}}

(***************************************************************************)
(* The result object.  status 0 stands for a status that was never set.    *)
(***************************************************************************)
WithUrls(r, orig, final, status) ==
  [title |-> r.title, html |-> r.html, authors |-> r.authors, date |-> r.date,
   language |-> r.language, image |-> r.image, nextPageUrl |-> r.nextPageUrl,
   isNativeAd |-> r.isNativeAd, success |-> r.success,
   originalUrl |-> orig, finalUrl |-> final, status |-> status]

\* the literal extract returns for a response that is not HTML
BlankResult(authors) ==
  [title |-> "", html |-> <<>>, authors |-> authors, date |-> Null, language |-> Null,
   image |-> Null, nextPageUrl |-> NullLink, isNativeAd |-> FALSE, success |-> FALSE]

\* the <p><em>..</em></p> notice of processMultiPage
ErrorNote == [k |-> "el", id |-> 0]

\* a request to the transport: the URL, the call site ("page": extract,
\* "single": the single-page view, "next": processMultiPage) and the
\* skipTypeCheck option of the fetch
Request(url, from, skipTypeCheck) == [url |-> url, from |-> from, skipTypeCheck |-> skipTypeCheck]

\* the locals of one extract / extractFromHtml call.  fetched lists the
\* requests the call made to the transport, seen the pages it handed to an
\* extractor with what came out, stop why the loop of processMultiPage ended,
\* page1 the URL of the first response of extract and the single_page_link
\* patterns as they evaluate on it, singleGot what the request for the
\* single-page view gave ("content" or "nothing").
IdleCall ==
  [pc |-> "idle", entry |-> "none", url |-> NullLink, respUrl |-> NullLink, doc |-> NoDoc,
   first |-> getResult(NewExtractor), processedUrls |-> {}, allPages |-> <<>>,
   nextPageUrl |-> NullLink, pageCount |-> 0, target |-> NullLink, stop |-> "none",
   fetched |-> <<>>, seen |-> <<>>, page1 |-> [url |-> NullLink, rules |-> FALSE, single |-> <<>>],
   singleGot |-> "none",
   ret |-> WithUrls(getResult(NewExtractor), NullLink, NullLink, 0)]

makeAbsoluteUrl(l, base) ==
  IF ~TruthyLink(l) THEN NullLink
  ELSE IF l.k = "abs" THEN l
  ELSE IF l.k = "rel" THEN Url(base.d, l.n)
  ELSE NullLink

\* container.innerHTML = html; container.firstElementChild
FirstElementChild(nodes) ==
  LET els == {i \in 1..Len(nodes) : nodes[i].k # "text"}
  IN IF els = {} THEN <<>> ELSE <<nodes[CHOOSE i \in els : \A j \in els : i <= j]>>

\* new ContentExtractor(..) followed by process(html, url, siteConfig)
TempExtractor(doc, enableXss) == process(Construct(<<>>), doc, enableXss).e

\* getSinglePageUrl(html, baseUrl)
getSinglePageUrl(doc, baseUrl, enableXss) ==
  IF ~doc.rules.has \/ Len(doc.rules.single) = 0 THEN NullLink
  ELSE LET sp == TempExtractor(doc, enableXss).singlePageUrl
       IN IF TruthyLink(sp) THEN makeAbsoluteUrl(sp, baseUrl) ELSE NullLink

\* the tail of extract / extractFromHtml: the URL fields and the return
Finish(k, r) ==
  [k EXCEPT !.pc = "done",
            !.ret = IF k.entry = "extract" THEN WithUrls(r, k.url, k.respUrl, 200)
                    ELSE WithUrls(r, k.url, k.url, 0)]

\* the combination that reports the link the loop stopped at
Combine_lastLink(k, stop) ==
  LET j == [k EXCEPT !.stop = stop]
  IN IF Len(j.allPages) > 1
     THEN Finish(j, [j.first EXCEPT !.html = j.allPages, !.nextPageUrl = j.nextPageUrl])
     ELSE Finish(j, j.first)

\* the combination taken as soon as one element was accumulated
Combine_fromOne(k, stop) ==
  LET j == [k EXCEPT !.stop = stop]
  IN IF Len(j.allPages) > 0 THEN Finish(j, [j.first EXCEPT !.html = j.allPages])
     ELSE Finish(j, j.first)

\* processMultiPage after its loop: the combined result, or null and the
\* caller keeps the result of the first page
Combine(k, stop) ==
  LET j == [k EXCEPT !.stop = stop]
  IN IF Len(j.allPages) > 1 THEN Finish(j, [j.first EXCEPT !.html = j.allPages])
     ELSE Finish(j, j.first)

\* the head of the while loop that never looks at the URLs already processed
LoopTop_noVisitedCheck(k, limit) ==
  IF TruthyLink(k.nextPageUrl) /\ k.pageCount < limit
  THEN LET absoluteUrl == makeAbsoluteUrl(k.nextPageUrl, k.respUrl)
       IN IF absoluteUrl = NullLink THEN Combine(k, "unresolved")
          ELSE [k EXCEPT !.pc = "mpFetch", !.target = absoluteUrl,
                         !.processedUrls = @ \cup {absoluteUrl},
                         !.fetched = Append(@, Request(absoluteUrl, "next", FALSE))]
  ELSE Combine(k, IF TruthyLink(k.nextPageUrl) THEN "limit" ELSE "nolink")

\* the head of the while loop of processMultiPage, up to the fetch of the
\* next page or to the return
LoopTop(k, limit) ==
  IF TruthyLink(k.nextPageUrl) /\ k.pageCount < limit
  THEN LET absoluteUrl == makeAbsoluteUrl(k.nextPageUrl, k.respUrl)
       IN IF absoluteUrl = NullLink THEN Combine(k, "unresolved")
          ELSE IF absoluteUrl \in k.processedUrls THEN Combine(k, "repeat")
          ELSE [k EXCEPT !.pc = "mpFetch", !.target = absoluteUrl,
                         !.processedUrls = @ \cup {absoluteUrl},
                         !.fetched = Append(@, Request(absoluteUrl, "next", FALSE))]
  ELSE Combine(k, IF TruthyLink(k.nextPageUrl) THEN "limit" ELSE "nolink")

\* processMultiPage(firstPageResult, baseUrl) up to its first suspension
processMultiPage(k, r, limit) ==
  LoopTop([k EXCEPT !.first = r, !.processedUrls = {k.respUrl},
                    !.allPages = FirstElementChild(r.html),
                    !.nextPageUrl = r.nextPageUrl, !.pageCount = 1], limit)

PageSeen(url, r) == [url |-> url, html |-> r.html, next |-> r.nextPageUrl, ok |-> r.success]

\* extract(url) up to the request for the page
ExtractStart(c, url) ==
  /\ calls[c].pc = "idle"
  /\ calls' = [calls EXCEPT ![c] = [@ EXCEPT !.pc = "fetch", !.entry = "extract",
                                             !.url = url, !.fetched = <<Request(url, "page", FALSE)>>]]
  /\ UNCHANGED <<extractor, arrays, ce, options, util>>

\* what the transport serves for a request: direct, the pages of the URL
\* asked for, or redirected, those of RedirectedUrl; each with its final URL
Served(direct, redirected) == {<<"direct", d>> : d \in direct} \cup {<<"redirected", d>> : d \in redirected}

\* extract from the answer of the transport to the next suspension
FetchFirst(c, served) ==
  /\ calls[c].pc = "fetch"
  /\ \/ \* the transport throws, or gives an empty body for an HTML type
        /\ calls' = [calls EXCEPT ![c].pc = "threw"]
        /\ UNCHANGED arrays
     \/ \* not HTML: the blank result
        \E ru \in {calls[c].url, RedirectedUrl} :
          /\ arrays' = Append(arrays, <<>>)
          /\ calls' = [calls EXCEPT ![c] =
                         Finish([@ EXCEPT !.respUrl = ru], BlankResult(Len(arrays) + 1))]
     \/ \E ru \in {calls[c].url, RedirectedUrl} : \E doc \in {p[2] : p \in {q \in served : q[1] = IF ru = calls[c].url THEN "direct" ELSE "redirected"}} :
          LET k == [calls[c] EXCEPT !.respUrl = ru, !.doc = doc,
                                    !.page1 = [url |-> ru, rules |-> doc.rules.has,
                                                 single |-> doc.rules.single]]
              sp == getSinglePageUrl(doc, ru, options.enableXss)
          IN /\ calls' = [calls EXCEPT ![c] =
                  IF ~doc.rules.has THEN [k EXCEPT !.pc = "threw"]
                  ELSE IF Len(doc.rules.single) > 0 /\ TruthyLink(sp)
                  THEN [k EXCEPT !.pc = "fetchSingle", !.target = sp, !.fetched = Append(@, Request(sp, "single", TRUE))]
                  ELSE [k EXCEPT !.pc = "process"]]
             /\ UNCHANGED arrays
  /\ UNCHANGED <<extractor, ce, options, util>>

\* the single-page content taken without its URL
FetchSingle_keepsUrl(c) ==
  /\ calls[c].pc = "fetchSingle"
  /\ \/ calls' = [calls EXCEPT ![c] = [@ EXCEPT !.pc = "process", !.singleGot = "nothing"]]
     \/ \E doc \in PagesAt(calls[c].target) :
          calls' = [calls EXCEPT ![c] = [@ EXCEPT !.pc = "process", !.doc = doc,
                                                  !.singleGot = "content"]]
  /\ UNCHANGED <<extractor, arrays, ce, options, util>>

\* extract from the answer for the single-page view to the call of process
FetchSingle(c) ==
  /\ calls[c].pc = "fetchSingle"
  /\ \/ \* the transport throws or gives no body: the first page is kept
        calls' = [calls EXCEPT ![c] = [@ EXCEPT !.pc = "process", !.singleGot = "nothing"]]
     \/ \E doc \in PagesAt(calls[c].target) :
          calls' = [calls EXCEPT ![c] = [@ EXCEPT !.pc = "process", !.doc = doc,
                                                  !.respUrl = calls[c].target,
                                                  !.singleGot = "content"]]
  /\ UNCHANGED <<extractor, arrays, ce, options, util>>

\* extractFromHtml(html, url) up to the call of process
ExtractFromHtmlStart(c, url, pages) ==
  /\ calls[c].pc = "idle"
  /\ \E doc \in pages :
       calls' = [calls EXCEPT ![c] = [@ EXCEPT !.pc = "process", !.entry = "fromHtml",
                                               !.url = url, !.respUrl = url,
                                               !.doc = doc]]
  /\ UNCHANGED <<extractor, arrays, ce, options, util>>

\* this.extractor.process(..) up to its suspension or its return
ProcessStart(c) ==
  /\ calls[c].pc = "process"
  /\ LET doc == calls[c].doc
         s == IF doc.rules.has THEN process([e |-> extractor, h |-> arrays], doc, options.enableXss)
              ELSE reset([e |-> extractor, h |-> arrays])
     IN /\ extractor' = s.e
        /\ arrays' = s.h
        /\ calls' = [calls EXCEPT ![c].pc = IF doc.rules.has THEN "processed" ELSE "awaitConfig"]
  /\ UNCHANGED <<ce, options, util>>

\* process resumes when the rule provider has answered
ProcessConfig(c) ==
  /\ calls[c].pc = "awaitConfig"
  /\ LET s == ProcessRest([e |-> extractor, h |-> arrays], calls[c].doc, options.enableXss)
     IN /\ extractor' = s.e
        /\ arrays' = s.h
        /\ calls' = [calls EXCEPT ![c].pc = "processed"]
  /\ UNCHANGED <<ce, options, util>>

\* the call resumes after "await this.extractor.process": getResult, then
\* processMultiPage or the return
TakeResult(c) ==
  /\ calls[c].pc = "processed"
  /\ LET r == getResult(extractor)
         k == [calls[c] EXCEPT !.first = r, !.seen = <<PageSeen(calls[c].respUrl, r)>>]
     IN calls' = [calls EXCEPT ![c] =
                    IF options.multipage /\ TruthyLink(r.nextPageUrl)
                    THEN processMultiPage(k, r, options.multipageLimit)
                    ELSE Finish(k, r)]
  /\ UNCHANGED <<extractor, arrays, ce, options, util>>

\* processMultiPage from the answer for a continuation page to the next
\* fetch or to the return
MultiPageFetched(c) ==
  /\ calls[c].pc = "mpFetch"
  /\ LET k == calls[c]
     IN \/ \* the transport throws: the notice
           calls' = [calls EXCEPT ![c] =
                       Combine([k EXCEPT !.allPages = Append(@, ErrorNote)], "threw")]
        \/ \* no body in the response
           calls' = [calls EXCEPT ![c] = Combine(k, "nohtml")]
        \/ \E doc \in PagesAt(k.target) :
             LET e == TempExtractor(doc, options.enableXss)
                 r == getResult(e)
             IN calls' = [calls EXCEPT ![c] =
                  IF e.success
                  THEN LoopTop([k EXCEPT !.allPages = @ \o FirstElementChild(r.html),
                                         !.nextPageUrl = r.nextPageUrl,
                                         !.pageCount = @ + 1,
                                         !.seen = Append(@, PageSeen(k.target, r))],
                               options.multipageLimit)
                  ELSE Combine([k EXCEPT !.allPages = Append(@, ErrorNote),
                                         !.seen = Append(@, PageSeen(k.target, r))], "failed")]
  /\ UNCHANGED <<extractor, arrays, ce, options, util>>

GrabyOptions == [multipage : BOOLEAN, multipageLimit : 1..MaxLimit, enableXss : {TRUE}]

InitGraby(n) ==
  /\ extractor = Construct(<<>>).e
  /\ arrays = Construct(<<>>).h
  /\ ce = [pc |-> "idle", doc |-> NoDoc, enableXss |-> TRUE, ret |-> FALSE, calls |-> 0, held |-> <<>>]
  /\ options \in GrabyOptions
  /\ calls = [c \in 1..n |-> IdleCall]
  /\ util = NoUtil

Init == InitGraby(1)

Next ==
  \E c \in DOMAIN calls :
    \/ ExtractStart(c, StartUrl)
    \/ FetchFirst(c, Served(FirstPagesAt(StartUrl), FirstPagesAt(RedirectedUrl)))
    \/ FetchSingle(c)
    \/ ExtractFromHtmlStart(c, StartUrl, PagesAt(StartUrl))
    \/ ProcessStart(c)
    \/ ProcessConfig(c)
    \/ TakeResult(c)
    \/ MultiPageFetched(c)

Spec == Init /\ [][Next]_vars

\* the pages two calls on one Graby instance are given: each page names
\* its own title, author and body
AuthorBlock(u) ==
  [valid |-> TRUE, type |-> "Article", headline |-> Null, datePublished |-> Null,
   author |-> [k |-> "str", v |-> "author of " \o PageTitle(u)]]

ConcPagesAt(u) ==
  {MkDoc(PageTitle(u), NoMeta, NoMeta, NoMeta, NoMeta, NoMeta, ld, r, a) :
     ld \in {<<>>, <<AuthorBlock(u)>>},
     r \in {NoRules, RulePage(u, <<"el">>, NullLink, NullLink).rules},
     a \in {NoArticle, PageArticle(u)}}

InitConc == InitGraby(2) /\ ~options.multipage

NextConc ==
  \E c \in DOMAIN calls :
    \/ ExtractStart(c, Url(1, c))
    \/ FetchFirst(c, Served(ConcPagesAt(Url(1, c)), ConcPagesAt(RedirectedUrl)))
    \/ ExtractFromHtmlStart(c, Url(1, c), ConcPagesAt(Url(1, c)))
    \/ ProcessStart(c)
    \/ ProcessConfig(c)
    \/ TakeResult(c)

SpecConc == InitConc /\ [][NextConc]_vars

(***************************************************************************)
(* DomUtils.  An attribute value that holds a URL is                       *)
(*   [k, n, c, via, base]                                                  *)
(* k: "none" (no such attribute), "empty" (''), "abs" (http(s)://..),     *)
(* "protoRel" (//host/..), "rootRel" (/path), "rel" (path), "anchor"       *)
(* (#..), "js" (javascript:..), "data" (data:image/..); n names the text,  *)
(* BlankGif being a path that ends in blank.gif; c says whether it has a   *)
(* comma in it ("comma"), is the part of text n before its comma ("head")  *)
(* or after it ("tail"), or has none ("plain"); via and base say how the   *)
(* value was made: as written ("none", 0) or by resolving a "root"- or     *)
(* "dir"-relative reference against base URL number base.                  *)
(* A srcset value is [has, entries], entries the candidates as written,    *)
(* each [url, desc], separated by ", ".                                    *)
(***************************************************************************)
UrlText(k, n, c) == [k |-> k, n |-> n, c |-> c, via |-> "none", base |-> 0]

NoUrl == UrlText("none", 0, "plain")

BlankGif == 9

NoSrcset == [has |-> FALSE, entries |-> <<>>]

Srcset(entries) == [has |-> TRUE, entries |-> entries]

\* JavaScript truthiness of getAttribute(..)
HasValue(u) == u.k \notin {"none", "empty"}

\* new URLParse(url, base).toString() for the texts above: a rooted path
\* replaces the path of the base, any other path its last segment; a data:
\* URI has a scheme of its own and is kept
UrlParseToString(url, base) ==
  IF url.k = "rootRel" THEN [url EXCEPT !.k = "abs", !.via = "root", !.base = base]
  ELSE IF url.k = "rel" THEN [url EXCEPT !.k = "abs", !.via = "dir", !.base = base]
  ELSE url

resolveUrl(url, base) ==
  IF url.k \in {"abs", "protoRel"} THEN url
  ELSE IF url.k \in {"anchor", "js"} THEN url
  ELSE UrlParseToString(url, base)

\* part.trim().split(/\s+/) of the pieces srcset.split(',') gives: a URL
\* with a comma in its text falls into two pieces, the second carrying the
\* descriptor
RECURSIVE SplitSrcset(_, _)
SplitSrcset(entries, i) ==
  IF i > Len(entries) THEN <<>>
  ELSE LET e == entries[i]
           parts == IF e.url.c = "comma"
                    THEN <<[url |-> [e.url EXCEPT !.c = "head"], desc |-> ""],
                           [url |-> [e.url EXCEPT !.k = "rel", !.c = "tail"], desc |-> e.desc]>>
                    ELSE <<e>>
       IN parts \o SplitSrcset(entries, i + 1)

\* the srcset branch of makeUrlsAbsolute
AbsoluteSrcset(srcset, base) ==
  IF ~srcset.has \/ Len(srcset.entries) = 0 THEN srcset
  ELSE LET parts == SplitSrcset(srcset.entries, 1)
       IN Srcset([i \in 1..Len(parts) |->
                    [url |-> resolveUrl(parts[i].url, base), desc |-> parts[i].desc]])

\* makeUrlsAbsolute on one node of the subtree
AbsoluteNode(nd, base) ==
  IF nd.tag = "a"
  THEN IF HasValue(nd.href) /\ nd.href.k \notin {"anchor", "js"}
       THEN [nd EXCEPT !.href = resolveUrl(nd.href, base)]
       ELSE nd
  ELSE IF nd.tag = "img"
  THEN [nd EXCEPT !.src = IF HasValue(@) THEN resolveUrl(@, base) ELSE @,
                  !.srcset = AbsoluteSrcset(@, base)]
  ELSE nd

makeUrlsAbsolute(element, base) == [i \in 1..Len(element) |-> AbsoluteNode(element[i], base)]

\* the placeholder test of fixLazyImages
IsPlaceholder(u) == u.k = "data" \/ u.n = BlankGif

\* one turn of lazyAttrs.forEach for an attribute whose name ends in "src"
\* (data-src, data-lazy-src, loading-src): v is the attribute's value
LazySrc(img, v) == IF HasValue(v) THEN [img EXCEPT !.src = v] ELSE img

\* one turn for an attribute whose name ends in "srcset"
LazySrcset(img, v) == IF v.has /\ Len(v.entries) > 0 THEN [img EXCEPT !.srcset = v] ELSE img

\* removeAttribute, taken only for a truthy value
Removed(v) == IF HasValue(v) THEN NoUrl ELSE v

RemovedSrcset(v) == IF v.has /\ Len(v.entries) > 0 THEN NoSrcset ELSE v

\* fixLazyImages on one image
FixLazyImage(img) ==
  LET a == LazySrc(img, img.dataSrc)
      b == LazySrc(a, img.dataLazySrc)
      c == LazySrcset(b, img.dataSrcset)
      d == LazySrcset(c, img.dataLazySrcset)
      e == LazySrc(d, img.loadingSrc)
      f == [e EXCEPT !.dataSrc = Removed(@), !.dataLazySrc = Removed(@),
                     !.dataOriginal = Removed(@), !.dataSrcset = RemovedSrcset(@),
                     !.dataLazySrcset = RemovedSrcset(@), !.loadingSrc = Removed(@)]
  IN IF HasValue(f.src) /\ IsPlaceholder(f.src)
        /\ (f.dataSrc.k # "none" \/ f.dataOriginal.k # "none")
     THEN [f EXCEPT !.src = NoUrl]
     ELSE f

fixLazyImages(element) ==
  [i \in 1..Len(element) |-> IF element[i].tag = "img" THEN FixLazyImage(element[i]) ELSE element[i]]

\* DOMPurify on the attributes: a javascript: URL is dropped, and so is
\* loading-src, which is neither in ALLOWED_ATTR nor a data- attribute
SanitizeAttrs(nd) ==
  IF nd.tag = "a" THEN [nd EXCEPT !.href = IF @.k = "js" THEN NoUrl ELSE @]
  ELSE IF nd.tag = "img"
  THEN [nd EXCEPT !.src = IF @.k = "js" THEN NoUrl ELSE @, !.loadingSrc = NoUrl]
  ELSE nd

\* the part of postProcess that works on the body
postProcessContent(element, base, enableXss) ==
  LET fixed == fixLazyImages(makeUrlsAbsolute(element, base))
  IN IF enableXss THEN [i \in 1..Len(fixed) |-> SanitizeAttrs(fixed[i])] ELSE fixed

(***************************************************************************)
(* The subtrees DomUtils is run on: anchors and images, one or two nodes.  *)
(***************************************************************************)
Anchor(href) == [tag |-> "a", href |-> href]

Image(src, srcset, dataSrc, dataOriginal, dataSrcset, loadingSrc) ==
  [tag |-> "img", src |-> src, srcset |-> srcset, dataSrc |-> dataSrc, dataLazySrc |-> NoUrl,
   dataOriginal |-> dataOriginal, dataSrcset |-> dataSrcset, dataLazySrcset |-> NoSrcset,
   loadingSrc |-> loadingSrc]

HrefTexts ==
  {NoUrl, UrlText("empty", 0, "plain")}
  \cup {UrlText(k, 1, "plain") : k \in {"abs", "protoRel", "rootRel", "rel", "anchor", "js"}}

SrcTexts ==
  {NoUrl, UrlText("data", 3, "plain"), UrlText("rootRel", BlankGif, "plain")}
  \cup {UrlText(k, 2, "plain") : k \in {"abs", "protoRel", "rootRel", "rel"}}

SrcsetTexts ==
  {NoSrcset,
   Srcset(<<[url |-> UrlText("rel", 4, "plain"), desc |-> "1x"]>>),
   Srcset(<<[url |-> UrlText("abs", 4, "plain"), desc |-> "1x"],
            [url |-> UrlText("rootRel", 5, "plain"), desc |-> "2x"]>>),
   Srcset(<<[url |-> UrlText("abs", 6, "comma"), desc |-> "2x"]>>)}

DataSrcTexts ==
  {NoUrl, UrlText("empty", 0, "plain"), UrlText("rootRel", 7, "plain"), UrlText("abs", 7, "plain")}

Images ==
  {Image(src, srcset, ds, do, dss, ls) :
     src \in SrcTexts, srcset \in SrcsetTexts, ds \in DataSrcTexts,
     do \in {NoUrl, UrlText("abs", 8, "plain")},
     dss \in {NoSrcset, Srcset(<<[url |-> UrlText("rel", 5, "plain"), desc |-> "2x"]>>)},
     ls \in {NoUrl, UrlText("rel", 8, "plain")}}

Anchors == {Anchor(h) : h \in HrefTexts}

Elements ==
  {<<nd>> : nd \in Anchors \cup Images}
  \cup {<<a, Image(src, NoSrcset, ds, NoUrl, NoSrcset, NoUrl)>> :
          a \in Anchors, src \in SrcTexts, ds \in DataSrcTexts}

\* the page URLs: 1 is https://x.com, 2 is https://y.org/dir/page
BaseUrls == {1, 2}

InitDom ==
  /\ extractor = Construct(<<>>).e
  /\ arrays = Construct(<<>>).h
  /\ ce = [pc |-> "idle", doc |-> NoDoc, enableXss |-> TRUE, ret |-> FALSE, calls |-> 0, held |-> <<>>]
  /\ options = DefaultOptions
  /\ calls = <<>>
  /\ \E el \in Elements, b \in BaseUrls :
       util = [pc |-> "args", element |-> el, base |-> b, enableXss |-> FALSE, out |-> el]

\* DomUtils.makeUrlsAbsolute(element, baseUrl)
MakeUrlsAbsoluteCall ==
  /\ util.pc = "args"
  /\ util' = [util EXCEPT !.pc = "absolute", !.out = makeUrlsAbsolute(util.element, util.base)]
  /\ UNCHANGED <<extractor, arrays, ce, options, calls>>

\* DomUtils.fixLazyImages(element)
FixLazyImagesCall ==
  /\ util.pc = "args"
  /\ util' = [util EXCEPT !.pc = "fixed", !.out = fixLazyImages(util.element)]
  /\ UNCHANGED <<extractor, arrays, ce, options, calls>>

\* postProcess on a body whose root is the element
PostProcessCall ==
  /\ util.pc = "args"
  /\ \E x \in BOOLEAN :
       util' = [util EXCEPT !.pc = "processed", !.enableXss = x,
                            !.out = postProcessContent(util.element, util.base, x)]
  /\ UNCHANGED <<extractor, arrays, ce, options, calls>>

NextDom == MakeUrlsAbsoluteCall \/ FixLazyImagesCall \/ PostProcessCall

SpecDom == InitDom /\ [][NextDom]_vars

(***************************************************************************)
(* applySiteConfig on the tree of the document.  A node is                 *)
(* [id, tag, cls, kids]; the document is the sequence of the children of   *)
(* its body.  id names the node of the parsed page a node is (a copy       *)
(* keeps it, an element the code creates has 0).  An expression is         *)
(* [kind, cls]: kind "any" selects every element of class cls              *)
(* (//*[@class='cls']), kind "top" the children of the body of that class  *)
(* (/html/body/*[@class='cls']).                                           *)
(***************************************************************************)
acceptedWrapInTags == {"blockquote", "p", "div"}

Selects(e, nd, top) == nd.cls = e.cls /\ (e.kind = "any" \/ top)

\* XPathHelper.evaluateXPath: the selected nodes in document order
RECURSIVE evaluateXPath(_, _, _)
evaluateXPath(e, forest, top) ==
  IF Len(forest) = 0 THEN <<>>
  ELSE LET nd == Head(forest)
       IN (IF Selects(e, nd, top) THEN <<nd>> ELSE <<>>)
          \o evaluateXPath(e, nd.kids, FALSE)
          \o evaluateXPath(e, Tail(forest), top)

\* wrapElements over the nodes an expression selects: each is replaced in
\* its parent by a new element holding a copy of it; a selected node below
\* another selected node is replaced in the detached original only
RECURSIVE wrapElements(_, _, _, _)
wrapElements(forest, e, tag, top) ==
  [i \in 1..Len(forest) |->
     IF Selects(e, forest[i], top)
     THEN [id |-> 0, tag |-> tag, cls |-> "", kids |-> <<forest[i]>>]
     ELSE [forest[i] EXCEPT !.kids = wrapElements(@, e, tag, FALSE)]]

\* the wrap_in loop that applies every entry
RECURSIVE WrapIn_anyTag(_, _, _)
WrapIn_anyTag(s, entries, i) ==
  IF i > Len(entries) THEN s
  ELSE WrapIn_anyTag([s EXCEPT !.document = wrapElements(@, entries[i].pattern, entries[i].tag, TRUE)],
                     entries, i + 1)

\* the wrap_in loop: s is [document, content, warnings]
RECURSIVE WrapIn(_, _, _)
WrapIn(s, entries, i) ==
  IF i > Len(entries) THEN s
  ELSE IF entries[i].tag \notin acceptedWrapInTags
  THEN WrapIn([s EXCEPT !.warnings = Append(@, entries[i].tag)], entries, i + 1)
  ELSE WrapIn([s EXCEPT !.document = wrapElements(@, entries[i].pattern, entries[i].tag, TRUE)],
              entries, i + 1)

\* parentNode.removeChild(node) for every node an expression selects
RECURSIVE RemoveSelected(_, _, _)
RemoveSelected(forest, e, top) ==
  IF Len(forest) = 0 THEN <<>>
  ELSE LET nd == Head(forest)
           rest == RemoveSelected(Tail(forest), e, top)
       IN IF Selects(e, nd, top) THEN rest
          ELSE <<[nd EXCEPT !.kids = RemoveSelected(@, e, FALSE)]>> \o rest

\* the strip loop
RECURSIVE Strip(_, _, _)
Strip(s, exprs, i) ==
  IF i > Len(exprs) THEN s
  ELSE Strip([s EXCEPT !.document = RemoveSelected(@, exprs[i], TRUE)], exprs, i + 1)

\* the body loop: the first expression that selects something gives a
\* container of deep clones of what it selects
RECURSIVE Body(_, _, _)
Body(s, exprs, i) ==
  IF i > Len(exprs) THEN s
  ELSE LET bodyNodes == evaluateXPath(exprs[i], s.document, TRUE)
       IN IF Len(bodyNodes) > 0 THEN [s EXCEPT !.content = [present |-> TRUE, nodes |-> bodyNodes]]
          ELSE Body(s, exprs, i + 1)

\* the rule steps with the body taken before strip
applyRulesToTree_bodyFirst(document, cfg) ==
  Strip(Body(WrapIn([document |-> document, content |-> NoContent, warnings |-> <<>>],
                    cfg.wrap_in, 1), cfg.body, 1), cfg.strip, 1)

\* applySiteConfig from wrap_in on: wrap, strip, body
applyRulesToTree(document, cfg) ==
  Body(Strip(WrapIn([document |-> document, content |-> NoContent, warnings |-> <<>>],
                    cfg.wrap_in, 1), cfg.strip, 1), cfg.body, 1)

\* every node of a forest
RECURSIVE NodesOf(_)
NodesOf(forest) ==
  IF Len(forest) = 0 THEN {}
  ELSE {Head(forest)} \cup NodesOf(Head(forest).kids) \cup NodesOf(Tail(forest))

\* Readability on the document the rules left: no article, or the
\* subtree of one of its elements
ReadabilityOn(document) ==
  {NoContent} \cup {[present |-> TRUE, nodes |-> <<nd>>] : nd \in NodesOf(document)}

Classes == {"a", "b", "c"}

Leaf(id, c) == [id |-> id, tag |-> "span", cls |-> c, kids |-> <<>>]

Box(id, c, kids) == [id |-> id, tag |-> "section", cls |-> c, kids |-> kids]

\* the children of the body a page can have at position i
TopNodes(i) ==
  {Leaf(10 * i, c) : c \in Classes}
    \cup {Box(10 * i, c, <<Leaf(10 * i + 1, k)>>) : c \in Classes, k \in Classes}

Trees == {<<n1>> : n1 \in TopNodes(1)} \cup {<<n1, n2>> : n1 \in TopNodes(1), n2 \in TopNodes(2)}

Anywhere(c) == [kind |-> "any", cls |-> c]

BodyChild(c) == [kind |-> "top", cls |-> c]

WrapEntry(tag, pattern) == [tag |-> tag, pattern |-> pattern]

WrapInConfigs ==
  {<<>>, <<WrapEntry("div", Anywhere("a"))>>, <<WrapEntry("script", Anywhere("a"))>>,
   <<WrapEntry("p", BodyChild("b"))>>,
   <<WrapEntry("iframe", BodyChild("b")), WrapEntry("blockquote", BodyChild("a"))>>,
   <<WrapEntry("object", Anywhere("c")), WrapEntry("iframe", BodyChild("a"))>>}

StripConfigs == {<<>>, <<Anywhere("b")>>, <<BodyChild("a")>>, <<BodyChild("b"), Anywhere("c")>>}

BodyConfigs == {<<>>, <<Anywhere("c")>>, <<BodyChild("a"), Anywhere("a")>>, <<Anywhere("b")>>}

TreeConfigs ==
  {[wrap_in |-> w, strip |-> s, body |-> b] :
     w \in WrapInConfigs, s \in StripConfigs, b \in BodyConfigs}

InitRules ==
  /\ extractor = Construct(<<>>).e
  /\ arrays = Construct(<<>>).h
  /\ ce = [pc |-> "idle", doc |-> NoDoc, enableXss |-> TRUE, ret |-> FALSE, calls |-> 0, held |-> <<>>]
  /\ options = DefaultOptions
  /\ calls = <<>>
  /\ \E t \in Trees, cfg \in TreeConfigs :
       util = [pc |-> "args", document |-> t, siteConfig |-> cfg, wrapped |-> <<>>,
               out |-> [document |-> <<>>, content |-> NoContent, warnings |-> <<>>],
               fallback |-> FALSE]

\* process from applySiteConfig's wrap_in step to the readability fallback
ProcessRulesCall ==
  /\ util.pc = "args"
  /\ LET r == applyRulesToTree(util.document, util.siteConfig)
         w == WrapIn([document |-> util.document, content |-> NoContent, warnings |-> <<>>],
                     util.siteConfig.wrap_in, 1)
     IN \E art \in (IF r.content.present THEN {r.content} ELSE ReadabilityOn(r.document)) :
          util' = [util EXCEPT !.pc = "done", !.wrapped = w.document,
                               !.out = [r EXCEPT !.content = art],
                               !.fallback = ~r.content.present]
  /\ UNCHANGED <<extractor, arrays, ce, options, calls>>

NextRules == ProcessRulesCall

SpecRules == InitRules /\ [][NextRules]_vars

(***************************************************************************)
(* EncodingUtils.  An encoding name is [s, upper, padded]: s is the name   *)
(* lower-cased and trimmed, upper says that the text has upper-case        *)
(* letters, padded that it has white space around it.  A value is          *)
(* [k, v]: a string (v a name), or what a property inherited from          *)
(* Object.prototype holds.  The bytes of a page are                        *)
(* [before, kind, name, after]: before ASCII bytes, then at most one       *)
(* encoding declaration of the given kind, then after ASCII bytes.         *)
(***************************************************************************)
MAX_CHARSET_DETECTION_SIZE == 50000

Name(s, upper, padded) == [s |-> s, upper |-> upper, padded |-> padded]

Plain(s) == Name(s, FALSE, FALSE)

Str(n) == [k |-> "string", v |-> n]

\* encoding.toLowerCase().trim()
Normalize(n) == Plain(n.s)

encodingMap ==
  [x \in {"iso-8850-1", "windows", "win", "cp1251", "cp1252", "latin1", "latin-1",
          "unicode", "utf", "none"} |->
     CASE x = "iso-8850-1" -> "iso-8859-1"
       [] x \in {"windows", "win", "cp1252"} -> "windows-1252"
       [] x = "cp1251" -> "windows-1251"
       [] x \in {"latin1", "latin-1"} -> "iso-8859-1"
       [] OTHER -> "utf-8"]

\* encodingMap[encoding] on an object literal: its own entries, then what
\* Object.prototype gives under that name, else undefined
Inherited == {"constructor", "__proto__"}

\* encodingMap[encoding] || encoding
MapLookup(n) ==
  IF n = Plain(n.s) /\ n.s \in DOMAIN encodingMap THEN Str(Plain(encodingMap[n.s]))
  ELSE IF n = Plain(n.s) /\ n.s \in Inherited
  THEN [k |-> IF n.s = "constructor" THEN "function" ELSE "object", v |-> Plain(n.s)]
  ELSE Str(n)

fixCommonEncodingMistakes(encoding) == MapLookup(Normalize(encoding))

NoDeclaration == "none"

\* the bytes of a declaration up to the first character of the name
PrefixLength(kind) ==
  CASE kind = "charset" -> 15      \* <meta charset="
    [] kind = "httpEquiv" -> 60    \* <meta http-equiv="Content-Type" content="text/html; charset=
    [] kind = "xml" -> 30          \* <?xml version="1.0" encoding="
    [] OTHER -> 0

Spelling ==
  [x \in {"koi8-r", "latin1"} |->
     IF x = "koi8-r" THEN <<"k", "ko", "koi", "koi8", "koi8-", "koi8-r">>
     ELSE <<"l", "la", "lat", "lati", "latin", "latin1">>]

\* the declaration with its closing quote and bracket
DeclarationLength(kind, name) ==
  IF kind = NoDeclaration THEN 0 ELSE PrefixLength(kind) + Len(Spelling[name]) + 2

Length(bytes) == bytes.before + DeclarationLength(bytes.kind, bytes.name) + bytes.after

Min(a, b) == IF a < b THEN a ELSE b

\* bytes.slice(0, n): how many bytes of the declaration the sample holds
SampleOf(bytes, n) ==
  [before |-> Min(bytes.before, n),
   got |-> IF bytes.before >= n THEN 0
           ELSE Min(DeclarationLength(bytes.kind, bytes.name), n - bytes.before)]

\* a declaration the sample holds: the charset it yields (Null when it is
\* there and yields none) and whether it stands at byte 0
Form(kind, charset, atStart) == [kind |-> kind, charset |-> charset, atStart |-> atStart]

\* the declarations in the head of the page, whole and inside the sample
HeadForms(bytes) ==
  [i \in 1..Len(bytes.head) |-> Form(bytes.head[i].kind, bytes.head[i].charset, i = 1)]

\* what the sample holds of the declaration behind the first bytes
TrailingForm(bytes, sample) ==
  LET chars == sample.got - PrefixLength(bytes.kind)
      full == Len(Spelling[bytes.name])
      first == Len(bytes.head) = 0 /\ sample.before = 0
  IN IF bytes.kind = NoDeclaration \/ sample.got = 0 THEN <<>>
     ELSE IF bytes.kind = "xml"
     THEN <<Form("xml", IF chars > full THEN bytes.name ELSE Null, first)>>
     ELSE IF bytes.kind = "httpEquiv" /\ sample.got < 31 THEN <<>>
     ELSE <<Form(bytes.kind, IF chars <= 0 THEN Null ELSE Spelling[bytes.name][Min(chars, full)],
                 first)>>

\* the charset of the first declaration of a kind that yields one
FirstOf(forms, kind) ==
  LET I == {i \in 1..Len(forms) : forms[i].kind = kind /\ forms[i].charset # Null}
  IN IF I = {} THEN Null ELSE forms[CHOOSE i \in I : \A j \in I : i <= j].charset

\* the if / else-if chain of regular expressions on the decoded sample
Scan(forms) ==
  IF Len(forms) > 0 /\ forms[1].kind = "xml" /\ forms[1].atStart /\ forms[1].charset # Null
  THEN forms[1].charset
  ELSE IF \E i \in 1..Len(forms) : forms[i].kind = "httpEquiv"
  THEN FirstOf(forms, "httpEquiv")
  ELSE IF FirstOf(forms, "charset") # Null THEN FirstOf(forms, "charset")
  ELSE FirstOf(forms, "otherMeta")

\* the regular expressions on the sample: the name one of them captures
Captured(bytes, sample) == Scan(HeadForms(bytes) \o TrailingForm(bytes, sample))

\* detectEncodingFromHtml that reads the whole document
detectEncodingFromHtml_wholeDocument(bytes, chardet) ==
  LET sampleBytes == SampleOf(bytes, Length(bytes))
      encoding == IF chardet \in {Null, "ascii"} /\ Captured(bytes, sampleBytes) # Null
                  THEN Captured(bytes, sampleBytes) ELSE chardet
  IN IF encoding \in {Null, "ascii"} THEN Str(Plain("utf-8"))
     ELSE fixCommonEncodingMistakes(Plain(encoding))

\* detectEncodingFromHtml; chardet is what chardet.detect gave for the
\* sample, lower-cased
detectEncodingFromHtml(bytes, chardet) ==
  LET sampleBytes == IF Length(bytes) > MAX_CHARSET_DETECTION_SIZE
                     THEN SampleOf(bytes, MAX_CHARSET_DETECTION_SIZE)
                     ELSE SampleOf(bytes, Length(bytes))
      encoding == IF chardet \in {Null, "ascii"} /\ Captured(bytes, sampleBytes) # Null
                  THEN Captured(bytes, sampleBytes) ELSE chardet
  IN IF encoding \in {Null, "ascii"} THEN Str(Plain("utf-8"))
     ELSE fixCommonEncodingMistakes(Plain(encoding))

ChardetResults == {Null, "ascii", "utf-8", "koi8-r", "windows-1252"}

DeclarationKinds == {"charset", "httpEquiv", "xml"}

Offsets == {0, 49940, 49977, 49982, 49985, 50000, 60000}

\* a declaration in the head of a page; charset Null: it declares none
Declaration(kind, charset) == [kind |-> kind, charset |-> charset]

Declarations ==
  {Declaration("xml", "windows-1251"), Declaration("xml", Null),
   Declaration("httpEquiv", "koi8-r"), Declaration("httpEquiv", Null),
   Declaration("charset", "latin1"), Declaration("otherMeta", "big5")}

Heads == {<<a>> : a \in Declarations} \cup {<<a, b>> : a, b \in Declarations}

Pages ==
  {[head |-> <<>>, before |-> b, kind |-> NoDeclaration, name |-> "koi8-r", after |-> 0] :
     b \in Offsets}
    \cup {[head |-> <<>>, before |-> b, kind |-> kd, name |-> n, after |-> a] :
            b \in Offsets, kd \in DeclarationKinds, n \in DOMAIN Spelling, a \in {0, 100}}
    \cup {[head |-> h, before |-> 200, kind |-> NoDeclaration, name |-> "koi8-r", after |-> 0] :
            h \in Heads}

EmptyPage ==
  [head |-> <<>>, before |-> 0, kind |-> NoDeclaration, name |-> "koi8-r", after |-> 0]

EncodingNames ==
  {Name(s, u, p) : s \in {"iso-8850-1", "windows", "win", "cp1251", "latin1", "none",
                          "utf-8", "koi8-r", "iso-8859-1", "constructor", "__proto__"},
                   u \in BOOLEAN, p \in BOOLEAN}

(***************************************************************************)
(* HttpClient.fetch from the bytes of the response to the decoding.  The   *)
(* Content-Type header is [param, quoted, name]: param is the spelling of  *)
(* the charset parameter ("none" when the header has none), quoted says    *)
(* that the value stands in quotes.                                        *)
(***************************************************************************)
\* an option that is not given (or given as the empty string) is falsy
Unset == Plain("")

NoCharset == [param |-> "none", quoted |-> FALSE, name |-> Plain("utf-8")]

\* the null that detectEncodingFromHeaders returns
NoEncoding == [k |-> "null", v |-> Unset]

\* EncodingUtils.detectEncodingFromHeaders
detectEncodingFromHeaders(header) ==
  IF header.param = "charset"
  THEN fixCommonEncodingMistakes([header.name EXCEPT !.padded = FALSE])
  ELSE NoEncoding

\* iconv.encodingExists
Supported == {"utf-8", "koi8-r", "windows-1251", "windows-1252", "iso-8859-1", "big5"}

\* the encoding convertToUtf8 decodes with
convertToUtf8(encoding) ==
  LET fixed == fixCommonEncodingMistakes(encoding.v)
  IN IF fixed.v.s \in Supported THEN fixed ELSE Str(Plain("utf-8"))

\* the encoding steps of fetch: what is resolved, what the bytes are
\* decoded with and whether the content was looked at
ResolveEncoding(client, header, bytes, chardet) ==
  LET fromHeaders == detectEncodingFromHeaders(header)
      detectedEncoding ==
        IF client.forceEncoding # Unset THEN Str(client.forceEncoding)
        ELSE IF client.autoDetectEncoding
        THEN (IF fromHeaders = NoEncoding THEN detectEncodingFromHtml(bytes, chardet) ELSE fromHeaders)
        ELSE Str(Plain("utf-8"))
  IN [detectedEncoding |-> detectedEncoding,
      decodedWith |-> convertToUtf8(detectedEncoding),
      consulted |-> client.forceEncoding = Unset /\ client.autoDetectEncoding /\ fromHeaders = NoEncoding]

HeaderNames == {Plain("koi8-r"), Name("utf-8", TRUE, FALSE), Plain("win")}

ContentTypes ==
  {NoCharset} \cup {[param |-> p, quoted |-> q, name |-> n] :
                      p \in {"charset", "Charset"}, q \in BOOLEAN, n \in HeaderNames}

ClientOptions ==
  [forceEncoding : {Unset, Plain("koi8-r"), Name("win", TRUE, TRUE)}, autoDetectEncoding : BOOLEAN]

FetchedPages ==
  {EmptyPage,
   [EmptyPage EXCEPT !.head = <<Declaration("charset", "latin1")>>, !.before = 200],
   [EmptyPage EXCEPT !.head = <<Declaration("xml", "windows-1251")>>, !.before = 200]}

\* fetch from response.bytes() to convertToUtf8
FetchDecodeCall ==
  /\ util.pc = "response"
  /\ \E r \in ChardetResults :
       util' = [util EXCEPT !.pc = "fetched", !.chardet = r,
                            !.out = ResolveEncoding(util.client, util.header, util.bytes, r)]
  /\ UNCHANGED <<extractor, arrays, ce, options, calls>>

InitEnc ==
  /\ extractor = Construct(<<>>).e
  /\ arrays = Construct(<<>>).h
  /\ ce = [pc |-> "idle", doc |-> NoDoc, enableXss |-> TRUE, ret |-> FALSE, calls |-> 0, held |-> <<>>]
  /\ options = DefaultOptions
  /\ calls = <<>>
  /\ \E b \in Pages, n \in EncodingNames :
       /\ b = EmptyPage \/ n = Plain("utf-8")
       /\ \/ util = [pc |-> "args", bytes |-> b, encoding |-> n, chardet |-> Null,
                     out |-> Str(n)]
          \/ /\ b \in FetchedPages /\ n = Plain("utf-8")
             /\ \E cl \in ClientOptions, h \in ContentTypes :
                  util = [pc |-> "response", bytes |-> b, encoding |-> n, chardet |-> Null,
                          out |-> Str(n), client |-> cl, header |-> h]

DetectEncodingFromHtmlCall ==
  /\ util.pc = "args"
  /\ \E r \in ChardetResults :
       util' = [util EXCEPT !.pc = "detected", !.chardet = r,
                            !.out = detectEncodingFromHtml(util.bytes, r)]
  /\ UNCHANGED <<extractor, arrays, ce, options, calls>>

FixCommonEncodingMistakesCall ==
  /\ util.pc = "args"
  /\ util' = [util EXCEPT !.pc = "fixed", !.out = fixCommonEncodingMistakes(util.encoding)]
  /\ UNCHANGED <<extractor, arrays, ce, options, calls>>

NextEnc == DetectEncodingFromHtmlCall \/ FixCommonEncodingMistakesCall \/ FetchDecodeCall

SpecEnc == InitEnc /\ [][NextEnc]_vars

(***************************************************************************)
(* extractNextPageUrl and extractSinglePageUrl on their own.  A pattern    *)
(* is [gate, nodes]: gate says whether if_page_contains has a condition    *)
(* for it and whether that condition matches ("none", "pass", "fail"),     *)
(* nodes is what the pattern matches, each node [href, value, text].       *)
(***************************************************************************)
EmptyText == [k |-> "empty", d |-> 0, n |-> 0]

\* an element without href and value whose text is blank
BlankNode == [href |-> NullLink, value |-> NullLink, text |-> EmptyText]

MatchedNodes ==
  {BlankNode, LinkNode(Rel(2)),
   [href |-> NullLink, value |-> Url(1, 2), text |-> Rel(1)],
   [href |-> NullLink, value |-> NullLink, text |-> Rel(1)]}

NodeLists == {<<>>} \cup {<<a>> : a \in MatchedNodes} \cup {<<a, b>> : a, b \in MatchedNodes}

Patterns == {[gate |-> g, nodes |-> ns] : g \in {"none", "pass", "fail"}, ns \in NodeLists}

PatternLists == {<<>>} \cup {<<p>> : p \in Patterns} \cup {<<p, q>> : p, q \in Patterns}

InitLinks ==
  /\ extractor = Construct(<<>>).e
  /\ arrays = Construct(<<>>).h
  /\ ce = [pc |-> "idle", doc |-> NoDoc, enableXss |-> TRUE, ret |-> FALSE, calls |-> 0, held |-> <<>>]
  /\ options = DefaultOptions
  /\ calls = <<>>
  /\ \E kind \in {"next_page_link", "single_page_link"}, pats \in PatternLists :
       util = [pc |-> "args", kind |-> kind, patterns |-> pats, out |-> NullLink]

ExtractLinkCall ==
  /\ util.pc = "args"
  /\ LET rules == [NoRules EXCEPT !.has = TRUE,
                                  !.next = IF util.kind = "next_page_link" THEN util.patterns ELSE <<>>,
                                  !.single = IF util.kind = "single_page_link" THEN util.patterns ELSE <<>>]
         doc == [NoDoc EXCEPT !.rules = rules]
         s == extractNextPageUrl(extractSinglePageUrl(Construct(<<>>), doc), doc)
     IN util' = [util EXCEPT !.pc = "linked",
                             !.out = IF util.kind = "next_page_link" THEN s.e.nextPageUrl
                                     ELSE s.e.singlePageUrl]
  /\ UNCHANGED <<extractor, arrays, ce, options, calls>>

NextLinks == ExtractLinkCall

SpecLinks == InitLinks /\ [][NextLinks]_vars

(***************************************************************************)
(* process from the link extraction to the body, on the tree of the        *)
(* document.  An element of tag "a" carries an href; the text of a node is *)
(* the text of the leaves below it, each named by its id.                  *)
(***************************************************************************)
RECURSIVE NodeText(_)
NodeText(nd) ==
  LET RECURSIVE TextOfAll(_)
      TextOfAll(forest) == IF Len(forest) = 0 THEN <<>>
                           ELSE NodeText(Head(forest)) \o TextOfAll(Tail(forest))
  IN IF Len(nd.kids) = 0 THEN <<nd.id>> ELSE TextOfAll(nd.kids)

NoTreeLink == [k |-> "null", of |-> <<>>]

\* what the node loop takes from the node it looks at: the href attribute
\* or else the text content
LinkOfNode(nd) ==
  IF nd.tag = "a" THEN [k |-> "href", of |-> <<nd.id>>] ELSE [k |-> "text", of |-> NodeText(nd)]

\* extractNextPageUrl / extractSinglePageUrl on the tree: the patterns in
\* order, the first node of the first one that selects something
RECURSIVE ExtractLinkFromTree(_, _, _)
ExtractLinkFromTree(document, patterns, i) ==
  IF i > Len(patterns) THEN NoTreeLink
  ELSE LET result == evaluateXPath(patterns[i], document, TRUE)
       IN IF Len(result) > 0 THEN LinkOfNode(result[1])
          ELSE ExtractLinkFromTree(document, patterns, i + 1)

\* the steps with the links read off the document the rules left
ProcessTree_rulesFirst(document, cfg) ==
  LET r == applyRulesToTree(document, cfg)
  IN [singlePageUrl |-> ExtractLinkFromTree(r.document, cfg.single_page_link, 1),
      nextPageUrl |-> ExtractLinkFromTree(r.document, cfg.next_page_link, 1),
      rules |-> r]

\* process :104-111: the two links, then applySiteConfig
ProcessTree(document, cfg) ==
  [singlePageUrl |-> ExtractLinkFromTree(document, cfg.single_page_link, 1),
   nextPageUrl |-> ExtractLinkFromTree(document, cfg.next_page_link, 1),
   rules |-> applyRulesToTree(document, cfg)]

LinkClasses == {"a", "b"}

LinkLeaf(id, c) == [id |-> id, tag |-> "a", cls |-> c, kids |-> <<>>]

LinkTopNodes(i) ==
  {Leaf(10 * i, c) : c \in LinkClasses} \cup {LinkLeaf(10 * i, c) : c \in LinkClasses}
    \cup {Box(10 * i, c, <<Leaf(10 * i + 1, k)>>) : c \in LinkClasses, k \in LinkClasses}
    \cup {Box(10 * i, c, <<LinkLeaf(10 * i + 1, k)>>) : c \in LinkClasses, k \in LinkClasses}

LinkTrees ==
  {<<n1>> : n1 \in LinkTopNodes(1)}
    \cup {<<n1, n2>> : n1 \in LinkTopNodes(1), n2 \in LinkTopNodes(2)}

LinkTreeConfigs ==
  {[next_page_link |-> n, single_page_link |-> sp, wrap_in |-> w, strip |-> s, body |-> b] :
     n \in {<<>>, <<Anywhere("a")>>, <<BodyChild("b"), Anywhere("a")>>},
     sp \in {<<>>, <<Anywhere("b")>>},
     w \in {<<>>, <<WrapEntry("div", Anywhere("a"))>>},
     s \in {<<>>, <<BodyChild("a")>>, <<Anywhere("b")>>},
     b \in {<<>>, <<Anywhere("a")>>, <<BodyChild("b")>>}}

InitOrder ==
  /\ extractor = Construct(<<>>).e
  /\ arrays = Construct(<<>>).h
  /\ ce = [pc |-> "idle", doc |-> NoDoc, enableXss |-> TRUE, ret |-> FALSE, calls |-> 0, held |-> <<>>]
  /\ options = DefaultOptions
  /\ calls = <<>>
  /\ \E t \in LinkTrees, cfg \in LinkTreeConfigs :
       util = [pc |-> "args", document |-> t, siteConfig |-> cfg,
               out |-> [singlePageUrl |-> NoTreeLink, nextPageUrl |-> NoTreeLink,
                        rules |-> [document |-> <<>>, content |-> NoContent, warnings |-> <<>>]]]

\* process from the link extraction to the readability fallback
ProcessTreeCall ==
  /\ util.pc = "args"
  /\ LET p == ProcessTree(util.document, util.siteConfig)
     IN \E art \in (IF p.rules.content.present THEN {p.rules.content}
                    ELSE ReadabilityOn(p.rules.document)) :
          util' = [util EXCEPT !.pc = "processed", !.out = [p EXCEPT !.rules.content = art]]
  /\ UNCHANGED <<extractor, arrays, ce, options, calls>>

NextOrder == ProcessTreeCall

SpecOrder == InitOrder /\ [][NextOrder]_vars

(***************************************************************************)
(* processStringReplacements on the raw HTML text.  A text is a sequence   *)
(* of characters; the pattern built from a find string is a sequence of    *)
(* tokens, each a character that stands for itself (escaped, or ordinary)  *)
(* or a metacharacter.                                                     *)
(***************************************************************************)
\* the characters find.replace(/[.*+?^${}()|[\]\\]/g, '\\$&') escapes
EscapedChars == {".", "*", "+", "?", "^", "$", "{", "}", "(", ")", "|", "[", "]", "\\"}

\* the characters with a meaning of their own in a pattern
MetaChars == {".", "*", "+", "?", "^", "$", "{", "}", "(", ")", "|", "[", "]", "\\"}

\* escapedFind as new RegExp reads it
EscapedFind(find) ==
  [i \in 1..Len(find) |-> [ch |-> find[i], literal |-> find[i] \in EscapedChars \/ find[i] \notin MetaChars]]

\* one token against one character; of the metacharacters the texts use,
\* an unescaped "." takes any character and an unescaped "$" none
TokenMatches(tok, c) ==
  IF tok.literal THEN c = tok.ch ELSE tok.ch = "."

\* the pattern matches the text at position p
MatchesAt(pattern, text, p) ==
  /\ p + Len(pattern) - 1 <= Len(text)
  /\ \A i \in 1..Len(pattern) : TokenMatches(pattern[i], text[p + i - 1])

\* the replacement patterns of String.prototype.replace: $$ is a dollar
\* sign and $& the matched text
RECURSIVE Expand(_, _, _)
Expand(replace, matched, i) ==
  IF i > Len(replace) THEN <<>>
  ELSE IF replace[i] = "$" /\ i < Len(replace) /\ replace[i + 1] = "$"
  THEN <<"$">> \o Expand(replace, matched, i + 2)
  ELSE IF replace[i] = "$" /\ i < Len(replace) /\ replace[i + 1] = "&"
  THEN matched \o Expand(replace, matched, i + 2)
  ELSE <<replace[i]>> \o Expand(replace, matched, i + 1)

\* processed.replace(new RegExp(escapedFind, 'g'), replace) from position p
RECURSIVE ReplaceGlobal(_, _, _, _)
ReplaceGlobal(text, pattern, replace, p) ==
  IF p > Len(text) THEN <<>>
  ELSE IF Len(pattern) > 0 /\ MatchesAt(pattern, text, p)
  THEN Expand(replace, SubSeq(text, p, p + Len(pattern) - 1), 1)
       \o ReplaceGlobal(text, pattern, replace, p + Len(pattern))
  ELSE <<text[p]>> \o ReplaceGlobal(text, pattern, replace, p + 1)

\* the loop of processStringReplacements from index i
RECURSIVE processStringReplacements(_, _, _)
processStringReplacements(html, siteConfig, i) ==
  IF i > Len(siteConfig.find_string) THEN html
  ELSE LET find == siteConfig.find_string[i]
           replace == IF i <= Len(siteConfig.replace_string)
                      THEN siteConfig.replace_string[i] ELSE <<>>
       IN processStringReplacements(
            ReplaceGlobal(html, EscapedFind(find), replace, 1), siteConfig, i + 1)

\* the text process hands to parseHTML
TextToParse(html, siteConfig) ==
  IF siteConfig.hasFind /\ siteConfig.hasReplace
  THEN processStringReplacements(html, siteConfig, 1)
  ELSE html

RawTexts ==
  {<<"a", ".", "a", "b">>, <<"a", "a", "a">>, <<"b", "$", "a", ".">>, <<"x", "a", "b", "a", "b">>}

FindStrings == {<<"a">>, <<".">>, <<"a", "b">>, <<"a", ".">>, <<"$">>}

ReplaceStrings == {<<>>, <<"b">>, <<"a", "a">>, <<"$", "&">>, <<"$", "$">>, <<"x", "$">>}

ListsOf(S) == {<<>>} \cup {<<x>> : x \in S} \cup {<<x, y>> : x \in S, y \in S}

StringConfigs ==
  {[hasFind |-> TRUE, hasReplace |-> TRUE, find_string |-> f, replace_string |-> r] :
     f \in ListsOf(FindStrings), r \in ListsOf(ReplaceStrings)}
  \cup {[hasFind |-> TRUE, hasReplace |-> FALSE, find_string |-> f, replace_string |-> <<>>] :
          f \in ListsOf(FindStrings)}
  \cup {[hasFind |-> FALSE, hasReplace |-> TRUE, find_string |-> <<>>, replace_string |-> r] :
          r \in ListsOf(ReplaceStrings)}

InitStrings ==
  /\ extractor = Construct(<<>>).e
  /\ arrays = Construct(<<>>).h
  /\ ce = [pc |-> "idle", doc |-> NoDoc, enableXss |-> TRUE, ret |-> FALSE, calls |-> 0, held |-> <<>>]
  /\ options = DefaultOptions
  /\ calls = <<>>
  /\ \E t \in RawTexts, c \in StringConfigs :
       util = [pc |-> "args", html |-> t, siteConfig |-> c, parsed |-> <<>>]

\* process from the string replacements to parseHTML(html)
ReplaceAndParseCall ==
  /\ util.pc = "args"
  /\ util' = [util EXCEPT !.pc = "parsed", !.parsed = TextToParse(util.html, util.siteConfig)]
  /\ UNCHANGED <<extractor, arrays, ce, options, calls>>

NextStrings == ReplaceAndParseCall

SpecStrings == InitStrings /\ [][NextStrings]_vars

(***************************************************************************)
(* What a document declares, read off the document itself.                 *)
(***************************************************************************)
Result == getResult(extractor)

ResultAuthors == arrays[extractor.authors]

IsFirstMatch(results, i) == Len(results[i]) > 0 /\ \A j \in 1..(i - 1) : Len(results[j]) = 0

NoMatch(results) == \A i \in 1..Len(results) : Len(results[i]) = 0

IsArticleBlock(b) == b.valid /\ b.type \in {"Article", "NewsArticle"}

\* the last Article/NewsArticle block with a headline (0: none)
LastHeadline(doc) ==
  LET I == {i \in 1..Len(doc.jsonld) : IsArticleBlock(doc.jsonld[i]) /\ Truthy(doc.jsonld[i].headline)}
  IN IF I = {} THEN 0 ELSE CHOOSE i \in I : \A j \in I : j <= i

LastDatePublished(doc) ==
  LET I == {i \in 1..Len(doc.jsonld) : IsArticleBlock(doc.jsonld[i]) /\ Truthy(doc.jsonld[i].datePublished)}
  IN IF I = {} THEN 0 ELSE CHOOSE i \in I : \A j \in I : j <= i

RuleBodyMatched(doc) == doc.rules.has /\ ~NoMatch(doc.rules.body)

BodyProduced(doc) == RuleBodyMatched(doc) \/ doc.readability.ok

\* the canonical form a date takes when a body was produced
Canonical(d, doc) == IF BodyProduced(doc) /\ Truthy(d) /\ ParsesAsIso(d) THEN FormatIso(d) ELSE d

OgDeclared(doc) == doc.ogTitle # NoMeta /\ Truthy(doc.ogTitle) /\ doc.ogImage # NoMeta /\ doc.ogDate # NoMeta

(***************************************************************************)
(* C5: when some title expression of the rule set matches, the final title *)
(* is the text of the first node of the first matching expression,         *)
(* whatever <title>, og:title or JSON-LD declare and wherever the body     *)
(* came from.                                                              *)
(***************************************************************************)
C5_RuleTitleWins ==
  (ce.pc = "returned" /\ ce.doc.rules.has) =>
    \A i \in 1..Len(ce.doc.rules.title) :
      IsFirstMatch(ce.doc.rules.title, i) => Result.title = ce.doc.rules.title[i][1]

(***************************************************************************)
(* C6: a page that declares og:title, og:image and article:published_time, *)
(* with no matching title expression, gets exactly these as its title,     *)
(* image and date.                                                         *)
(***************************************************************************)
C6_OpenGraphVerbatim ==
  (ce.pc = "returned" /\ OgDeclared(ce.doc) /\ NoMatch(ce.doc.rules.title)) =>
    /\ Result.title = ce.doc.ogTitle
    /\ Result.image = ce.doc.ogImage
    /\ Result.date = ce.doc.ogDate

(***************************************************************************)
(* C6 as amended: under the same conditions the image is og:image; the     *)
(* title is og:title unless an Article/NewsArticle JSON-LD block carries a *)
(* headline; the date is article:published_time unless such a block        *)
(* carries datePublished, in the canonical ISO-8601 form when a body was   *)
(* produced and the value parses.                                          *)
(***************************************************************************)
C6_OpenGraphUsed ==
  (ce.pc = "returned" /\ OgDeclared(ce.doc) /\ NoMatch(ce.doc.rules.title)) =>
    /\ Result.image = ce.doc.ogImage
    /\ LastHeadline(ce.doc) = 0 => Result.title = ce.doc.ogTitle
    /\ LastDatePublished(ce.doc) = 0 => Result.date = Canonical(ce.doc.ogDate, ce.doc)

C6_Witness ==
  /\ ce.pc = "returned" /\ OgDeclared(ce.doc) /\ NoMatch(ce.doc.rules.title)
  /\ ce.doc.rules.has /\ Len(ce.doc.rules.title) > 0
  /\ ce.doc.docTitle = "document title"
  /\ LastHeadline(ce.doc) = 0 /\ LastDatePublished(ce.doc) = 0
  /\ Result.title = "og title" /\ Result.date = "2023-08-15T00:00:00Z"
  /\ Result.image = "https://x.com/og.jpg"

(***************************************************************************)
(* C7: with no matching title expression, every Article/NewsArticle        *)
(* JSON-LD block gives the final title (its headline), the final date (its *)
(* datePublished) and one of the authors.                                  *)
(***************************************************************************)
C7_JsonLdVerbatim ==
  (ce.pc = "returned" /\ NoMatch(ce.doc.rules.title)) =>
    \A i \in 1..Len(ce.doc.jsonld) :
      LET b == ce.doc.jsonld[i]
      IN IsArticleBlock(b) =>
           /\ Truthy(b.headline) => Result.title = b.headline
           /\ Truthy(b.datePublished) => Result.date = b.datePublished
           /\ Truthy(b.author.v) => \E a \in 1..Len(ResultAuthors) : ResultAuthors[a] = b.author.v

(***************************************************************************)
(* C7 as amended: with no matching title expression, the final title is    *)
(* the headline of the last Article/NewsArticle block that has one, the    *)
(* final date the datePublished of the last such block that has one (in    *)
(* canonical ISO-8601 form when a body was produced and it parses), and    *)
(* the authors contain the author of every such block, whatever <title>    *)
(* and Open Graph declare.                                                 *)
(***************************************************************************)
C7_JsonLdLastBlock ==
  (ce.pc = "returned" /\ NoMatch(ce.doc.rules.title)) =>
    /\ LastHeadline(ce.doc) # 0 => Result.title = ce.doc.jsonld[LastHeadline(ce.doc)].headline
    /\ LastDatePublished(ce.doc) # 0 =>
         Result.date = Canonical(ce.doc.jsonld[LastDatePublished(ce.doc)].datePublished, ce.doc)
    /\ \A i \in 1..Len(ce.doc.jsonld) :
         (IsArticleBlock(ce.doc.jsonld[i]) /\ Truthy(ce.doc.jsonld[i].author.v)) =>
           \E a \in 1..Len(ResultAuthors) : ResultAuthors[a] = ce.doc.jsonld[i].author.v

C7_Witness ==
  /\ ce.pc = "returned" /\ NoMatch(ce.doc.rules.title) /\ OgDeclared(ce.doc)
  /\ ce.doc.docTitle = "document title"
  /\ Len(ce.doc.jsonld) = 2
  /\ ce.doc.jsonld[1].type = "NewsArticle" /\ ce.doc.jsonld[2].type = "Article"
  /\ ce.doc.readability.ok /\ ce.doc.readability.byline = "readability byline"
  /\ Result.title = LdHeadline[2]
  /\ Result.date = "2023-08-15T10:30:00Z"
  /\ ResultAuthors = <<"bob", "ann">>

(***************************************************************************)
(* C8: after process returns there is one body-root or none; success holds *)
(* exactly when a body expression of the rule set or the readability       *)
(* fallback produced it, and both the value process returns and the        *)
(* success field of getResult are that flag.                               *)
(***************************************************************************)
AfterXss(nodes) == IF ce.enableXss THEN Sanitize(nodes) ELSE nodes

C8_SuccessIffBody ==
  ce.pc = "returned" =>
    /\ extractor.success <=> BodyProduced(ce.doc)
    /\ extractor.content.present <=> BodyProduced(ce.doc)
    /\ ce.ret = extractor.success
    /\ Result.success = extractor.success
    /\ \A i \in 1..Len(ce.doc.rules.body) :
         (ce.doc.rules.has /\ IsFirstMatch(ce.doc.rules.body, i)) =>
           Result.html = AfterXss(ce.doc.rules.body[i])
    /\ (~RuleBodyMatched(ce.doc) /\ ce.doc.readability.ok) =>
         Result.html = AfterXss(ce.doc.readability.content)

C8_Witness ==
  /\ ce.pc = "returned" /\ ce.ret /\ ce.enableXss
  /\ ce.doc.rules.has /\ ce.doc.rules.body = <<<<>>, RuleNodes(2)>>
  /\ ce.doc.readability.ok
  /\ Result.html = <<[k |-> "el", id |-> 21], [k |-> "text", id |-> 22]>>

(***************************************************************************)
(* C10: when no body expression matches and the readability fallback gives *)
(* nothing, process still returns (false), and getResult has success false,*)
(* an empty body and the metadata the document declares.                   *)
(***************************************************************************)
DeclaredTitle(doc) ==
  IF doc.rules.has /\ ~NoMatch(doc.rules.title)
  THEN doc.rules.title[CHOOSE i \in 1..Len(doc.rules.title) : IsFirstMatch(doc.rules.title, i)][1]
  ELSE IF LastHeadline(doc) # 0 THEN doc.jsonld[LastHeadline(doc)].headline
  ELSE IF doc.ogTitle # NoMeta /\ Truthy(doc.ogTitle) THEN doc.ogTitle
  ELSE IF Truthy(doc.docTitle) THEN doc.docTitle ELSE ""

DeclaredDate(doc) ==
  IF LastDatePublished(doc) # 0 THEN doc.jsonld[LastDatePublished(doc)].datePublished
  ELSE IF doc.ogDate # NoMeta THEN doc.ogDate ELSE Null

DeclaredLanguage(doc) ==
  IF doc.ogLocale # NoMeta /\ Truthy(doc.ogLocale) THEN doc.ogLocale
  ELSE IF doc.htmlLang # NoMeta THEN doc.htmlLang ELSE Null

DeclaredImage(doc) == IF doc.ogImage # NoMeta THEN doc.ogImage ELSE Null

RECURSIVE DeclaredAuthors(_, _)
DeclaredAuthors(doc, n) ==
  IF n = 0 THEN <<>>
  ELSE IF IsArticleBlock(doc.jsonld[n]) /\ Truthy(doc.jsonld[n].author.v)
       THEN Append(DeclaredAuthors(doc, n - 1), doc.jsonld[n].author.v)
       ELSE DeclaredAuthors(doc, n - 1)

C10_NoBodyStillReturns ==
  (ce.pc = "returned" /\ ~BodyProduced(ce.doc)) =>
    /\ ce.ret = FALSE
    /\ Result.success = FALSE
    /\ Result.html = <<>>
    /\ Result.title = DeclaredTitle(ce.doc)
    /\ Result.date = DeclaredDate(ce.doc)
    /\ Result.language = DeclaredLanguage(ce.doc)
    /\ Result.image = DeclaredImage(ce.doc)
    /\ ResultAuthors = DeclaredAuthors(ce.doc, Len(ce.doc.jsonld))

C10_Witness ==
  /\ ce.pc = "returned" /\ ~BodyProduced(ce.doc) /\ ~ce.ret
  /\ ce.doc.rules.has /\ Len(ce.doc.rules.body) = 2
  /\ Result.title = "xpath title 2"
  /\ Result.date = "2023-08-15T12:30:00+02:00"
  /\ Result.language = "en_US"
  /\ ResultAuthors = <<"ann", "bob">>
  /\ Result.html = <<>> /\ ~Result.success

(***************************************************************************)
(* C9: each process call on a reused extractor gives what a fresh          *)
(* extractor gives on the same input, and a result the caller already      *)
(* holds is not changed by a later call.                                   *)
(***************************************************************************)
View(e, h) == [getResult(e) EXCEPT !.authors = h[e.authors]]

C9_AsFresh ==
  ce.pc = "returned" =>
    LET f == process(Construct(<<>>), ce.doc, ce.enableXss)
    IN /\ View(extractor, arrays) = View(f.e, f.h)
       /\ extractor.singlePageUrl = f.e.singlePageUrl
       /\ ce.ret = f.e.success

C9_HeldUnchanged ==
  \A i \in 1..Len(ce.held) :
    /\ ce.held'[i] = ce.held[i]
    /\ arrays'[ce.held[i].authors] = arrays[ce.held[i].authors]

C9_NoCrossCallLeak == [](C9_AsFresh) /\ [][C9_HeldUnchanged]_vars

C9_Witness ==
  /\ ce.pc = "returned" /\ ce.calls = 2 /\ Len(ce.held) = 1
  /\ ce.held[1].title = "xpath title 1" /\ ce.held[1].isNativeAd /\ ce.held[1].success
  /\ ce.held[1].nextPageUrl = Rel(2)
  /\ arrays[ce.held[1].authors] = <<"ann">>
  /\ ~ce.doc.rules.has /\ ce.doc.jsonld # <<>>
  /\ Result.title = LdHeadline[1] /\ ResultAuthors = <<"bob">> /\ ~Result.success
  /\ Result.nextPageUrl = NullLink /\ ~Result.isNativeAd /\ Result.image = Null

(***************************************************************************)
(* Multi-page assembly, read off the locals of a call.                     *)
(***************************************************************************)
NextRequests(k) == SelectSeq(k.fetched, LAMBDA q : q.from = "next")

\* the page the next-page link of page p names, resolved against p's URL
Resolved(p) == makeAbsoluteUrl(p.next, p.url)

RECURSIVE Bodies(_, _)
Bodies(seen, n) == IF n = 0 THEN <<>> ELSE Bodies(seen, n - 1) \o seen[n].html

Notices(html) == Cardinality({i \in 1..Len(html) : html[i] = ErrorNote})

\* C1: extract with multipage enabled and a limit of at least 3, on pages
\* that all extract: each continuation page fetched is the one the link of
\* the page before it names; for a chain of three pages the last of which
\* has no link the body is the three extracted bodies in order; when page 3
\* links back to page 1 the loop stops there, page 1 is not fetched again
\* and the body is again the three bodies.
C1_ThreePageChain ==
  \A c \in DOMAIN calls :
    LET k == calls[c]
    IN (/\ k.pc = "done" /\ k.entry = "extract"
        /\ options.multipage /\ options.multipageLimit >= 3
        /\ \A i \in 1..Len(k.seen) : k.seen[i].ok)
       => /\ \A i \in 1..(Len(k.seen) - 1) : k.seen[i + 1].url = Resolved(k.seen[i])
          /\ (Len(k.seen) = 3 /\ ~TruthyLink(k.seen[3].next))
               => k.ret.html = Bodies(k.seen, 3)
          /\ (Len(k.seen) = 3 /\ TruthyLink(k.seen[3].next) /\ Resolved(k.seen[3]) = k.seen[1].url)
               => /\ k.stop = "repeat"
                  /\ Len(NextRequests(k)) = 2
                  /\ k.ret.html = Bodies(k.seen, 3)

\* C2: in every run of processMultiPage, whatever the links of the pages:
\* at most multipageLimit - 1 continuation fetches are issued, the page
\* count and the accumulated pages never exceed multipageLimit, every
\* continuation request is for an absolute URL that is neither the URL
\* processMultiPage started from nor one requested before, a repeated or
\* unresolvable link ends the call with a result and no error is raised
\* once a page has been extracted.
C2_Bounded ==
  \A c \in DOMAIN calls :
    LET k == calls[c]
        nx == NextRequests(k)
    IN /\ Len(nx) <= options.multipageLimit - 1
       /\ k.pageCount <= options.multipageLimit
       /\ Len(k.allPages) <= options.multipageLimit
       /\ \A i \in 1..Len(nx) :
            /\ nx[i].url.k = "abs"
            /\ nx[i].url # k.respUrl
            /\ \A j \in 1..(i - 1) : nx[j].url # nx[i].url
       /\ k.stop \in {"repeat", "unresolved"} => k.pc = "done"
       /\ k.pc = "threw" => k.seen = <<>> /\ nx = <<>>

\* every turn of the loop that does not end it issues one more continuation
\* fetch and counts one more page, so the bound above is a bound on the turns
C2_Progress ==
  \A c \in DOMAIN calls :
    calls[c].pc = "mpFetch" /\ calls'[c] # calls[c]
      => \/ calls'[c].pc = "done"
         \/ /\ calls'[c].pc = "mpFetch"
            /\ Len(NextRequests(calls'[c])) = Len(NextRequests(calls[c])) + 1
            /\ calls'[c].pageCount = calls[c].pageCount + 1

Returned(k) ==
  [title |-> k.ret.title, html |-> k.ret.html, authors |-> arrays[k.ret.authors],
   date |-> k.ret.date, language |-> k.ret.language, image |-> k.ret.image,
   nextPageUrl |-> k.ret.nextPageUrl, isNativeAd |-> k.ret.isNativeAd,
   success |-> k.ret.success]

\* what an extractor of its own gives on a page
Own(doc) ==
  LET f == process(Construct(<<>>), doc, options.enableXss)
  IN [getResult(f.e) EXCEPT !.authors = f.h[f.e.authors]]

\* C3: when two extract / extractFromHtml calls on one Graby instance
\* interleave at their awaits, each call that extracted a page returns, in
\* every field, what an extractor of its own gives on that page.
C3_CallsIsolated ==
  \A c \in DOMAIN calls :
    (calls[c].pc = "done" /\ calls[c].seen # <<>>)
      => Returned(calls[c]) = Own(calls[c].doc)

\* C4: when the loop of processMultiPage ends because a continuation page
\* had no body, its fetch threw or its extraction failed, the call has
\* returned, the body it returns holds exactly one notice, at its end, and
\* success is true.
C4_NoticeOnFailure ==
  \A c \in DOMAIN calls :
    LET k == calls[c]
    IN k.stop \in {"nohtml", "threw", "failed"}
         => /\ k.pc = "done"
            /\ Notices(k.ret.html) = 1
            /\ k.ret.html[Len(k.ret.html)] = ErrorNote
            /\ k.ret.success

\* what the readability fallback alone gives on a page without rule set
FallbackOnly(doc) ==
  [html |-> IF doc.readability.ok THEN Sanitize(doc.readability.content) ELSE <<>>,
   success |-> doc.readability.ok]

\* C11: when the rule provider has no rule set for the host of the page,
\* neither extract nor extractFromHtml raises an error once the page has
\* been obtained, and the result returned has the readability body.
C11_NoRuleSetCompletes ==
  \A c \in DOMAIN calls :
    LET k == calls[c]
    IN (k.doc # NoDoc /\ ~k.doc.rules.has)
         => /\ k.pc # "threw"
            /\ k.pc = "done" => /\ k.ret.html = FallbackOnly(k.doc).html
                                /\ k.ret.success = FallbackOnly(k.doc).success

SingleRequests(k) == SelectSeq(k.fetched, LAMBDA q : q.from = "single")

\* the value single_page_link gives on the first response of extract
SingleLinkOf(p) ==
  IF p.rules /\ Len(p.single) > 0
  THEN makeAbsoluteUrl(LinkFrom(NullLink, p.single, 1), p.url)
  ELSE NullLink

\* C13: in an extract call that has its first response and a rule set:
\* when single_page_link gives a URL on it, that URL is requested exactly
\* once, with skipTypeCheck, right after the page itself, before any page
\* is extracted and before any continuation request; when the request gave
\* content, the working page and its URL are that content and that URL,
\* the page extracted first is that one and the result is its extraction;
\* when it gave nothing, or when there is no such URL, the working page is
\* the first response.
C13_SingleFetched ==
  \A c \in DOMAIN calls :
    LET k == calls[c]
        sr == SingleRequests(k)
        sp == SingleLinkOf(k.page1)
    IN (k.entry = "extract" /\ k.page1.rules)
         => /\ Len(sr) = IF TruthyLink(sp) THEN 1 ELSE 0
            /\ TruthyLink(sp)
                 => /\ k.fetched[2] = Request(sp, "single", TRUE)
                    /\ k.pc = "fetchSingle" => k.seen = <<>> /\ Len(k.fetched) = 2
                    /\ k.pc # "fetchSingle" => k.singleGot \in {"content", "nothing"}
            /\ k.singleGot = "content"
                 => /\ k.respUrl = sp /\ k.doc \in PagesAt(sp)
                    /\ k.seen # <<>> => k.seen[1].url = sp
                    /\ k.pc = "done" => /\ [Returned(k) EXCEPT !.html = <<>>] = [Own(k.doc) EXCEPT !.html = <<>>]
                                        /\ k.ret.finalUrl = sp
            /\ k.singleGot # "content" => k.respUrl = k.page1.url

\* a request for the single-page view that gives nothing leaves the
\* working page as it was
C13_KeptOnFailure ==
  \A c \in DOMAIN calls :
    (calls[c].pc = "fetchSingle" /\ calls'[c].singleGot = "nothing")
      => /\ calls'[c].doc = calls[c].doc
         /\ calls'[c].respUrl = calls[c].respUrl
         /\ calls'[c].pc = "process"

C13_SinglePageFirst == [](C13_SingleFetched) /\ [][C13_KeptOnFailure]_vars

\* the single-page view was used and the call returned its extraction
C13_Witness ==
  \E c \in DOMAIN calls :
    /\ calls[c].pc = "done" /\ calls[c].singleGot = "content"
    /\ calls[c].ret.success /\ calls[c].ret.html = Own(calls[c].doc).html
    /\ calls[c].page1.url # calls[c].respUrl

(***************************************************************************)
(* DomUtils, read off the node before and after.                           *)
(***************************************************************************)
\* the resolution of a rooted or relative reference against the page URL
ResolutionOf(u, base) ==
  [u EXCEPT !.k = "abs", !.via = IF u.k = "rootRel" THEN "root" ELSE "dir", !.base = base]

\* C14: after post-processing, an image that had a rooted data-src, an
\* inline data: URI as src and no other lazy-loading attribute has for src
\* the resolution of the data-src value against the page URL, and has no
\* data-src attribute.
C14_LazyImageAbsolute ==
  util.pc = "processed" =>
    \A i \in 1..Len(util.element) :
      LET img == util.element[i]
      IN (/\ img.tag = "img" /\ img.dataSrc.k = "rootRel" /\ img.src.k = "data"
          /\ img.dataOriginal = NoUrl /\ img.loadingSrc = NoUrl /\ ~img.dataSrcset.has)
           => /\ util.out[i].src = ResolutionOf(img.dataSrc, util.base)
              /\ util.out[i].dataSrc = NoUrl

\* what absolutization is to give for a value: the resolution of a rooted
\* or relative reference, the value itself otherwise
Absolutized(u, base) == IF u.k \in {"rootRel", "rel"} THEN ResolutionOf(u, base) ELSE u

ClaimedKinds == {"rootRel", "rel", "abs", "protoRel", "anchor", "js"}

\* C15: after makeUrlsAbsolute, every anchor href, image src and srcset
\* candidate that was relative is its resolution against the page URL, and
\* every one that was absolute, protocol-relative, an in-page anchor or a
\* javascript: URL is unchanged; a srcset keeps its candidates and their
\* descriptors.
C15_UrlsAbsolutized ==
  util.pc = "absolute" =>
    \A i \in 1..Len(util.element) :
      LET nd == util.element[i]
          out == util.out[i]
      IN /\ (nd.tag = "a" /\ nd.href.k \in ClaimedKinds)
              => out.href = Absolutized(nd.href, util.base)
         /\ (nd.tag = "img" /\ nd.src.k \in ClaimedKinds)
              => out.src = Absolutized(nd.src, util.base)
         /\ (nd.tag = "img" /\ nd.srcset.has)
              => /\ Len(out.srcset.entries) = Len(nd.srcset.entries)
                 /\ \A j \in 1..Len(nd.srcset.entries) :
                      nd.srcset.entries[j].url.k \in ClaimedKinds
                        => /\ out.srcset.entries[j].url = Absolutized(nd.srcset.entries[j].url, util.base)
                           /\ out.srcset.entries[j].desc = nd.srcset.entries[j].desc

(***************************************************************************)
(* wrap_in, strip and body on the document tree.                           *)
(***************************************************************************)
WrapTags == {"blockquote", "p", "div"}

Refused(entries) == SelectSeq(entries, LAMBDA en : en.tag \notin WrapTags)

Created(forest) == {nd \in NodesOf(forest) : nd.id = 0}

\* C16: a wrap_in entry is applied only when its tag is blockquote, p or
\* div; every entry with another tag gives one warning and wraps nothing,
\* and a rule set with only such entries leaves the document as it was
C16_WrapInAcceptedOnly ==
  util.pc = "done" =>
    LET entries == util.siteConfig.wrap_in
    IN /\ \A nd \in Created(util.wrapped) : nd.tag \in WrapTags
       /\ util.out.warnings = [i \in 1..Len(Refused(entries)) |-> Refused(entries)[i].tag]
       /\ Refused(entries) = entries => util.wrapped = util.document
       /\ (Len(entries) > 0 /\ entries[1].tag \in WrapTags
             /\ Len(evaluateXPath(entries[1].pattern, util.document, TRUE)) > 0)
            => \E nd \in Created(util.wrapped) : nd.tag = entries[1].tag

C16_Witness ==
  /\ util.pc = "done"
  /\ Len(util.siteConfig.wrap_in) = 2
  /\ util.siteConfig.wrap_in[1].tag = "iframe"
  /\ Len(evaluateXPath(util.siteConfig.wrap_in[1].pattern, util.document, TRUE)) > 0
  /\ util.out.warnings = <<"iframe">>
  /\ \E nd \in Created(util.wrapped) : nd.tag = "blockquote"

\* every identified node of a forest
IdsOf(forest) == {nd.id : nd \in NodesOf(forest)} \ {0}

\* the nodes the strip expressions select, each evaluated on the document
\* its predecessors left, with everything below them
RECURSIVE StripTargets(_, _, _)
StripTargets(forest, exprs, i) ==
  IF i > Len(exprs) THEN {}
  ELSE IdsOf(evaluateXPath(exprs[i], forest, TRUE))
         \cup StripTargets(RemoveSelected(forest, exprs[i], TRUE), exprs, i + 1)

\* C19: strip runs on the wrapped document and before the body is taken:
\* no node a strip expression selects, and nothing below one, is in the
\* body, be it from a body expression or from readability
C19_NoStrippedNodeInBody ==
  util.pc = "done" =>
    /\ IdsOf(util.out.content.nodes)
         \cap StripTargets(util.wrapped, util.siteConfig.strip, 1) = {}
    /\ \A i \in 1..Len(util.siteConfig.strip) :
         util.siteConfig.strip[i].kind = "any"
           => \A nd \in NodesOf(util.out.content.nodes) : nd.cls # util.siteConfig.strip[i].cls

C19_Witness ==
  /\ util.pc = "done"
  /\ ~util.fallback
  /\ Len(util.siteConfig.wrap_in) > 0
  /\ util.wrapped # util.document
  /\ \E k \in StripTargets(util.wrapped, util.siteConfig.strip, 1) :
       /\ k % 10 # 0
       /\ \E nd \in NodesOf(util.out.content.nodes) : nd.id = k - (k % 10)

C19_FallbackWitness ==
  /\ util.pc = "done"
  /\ util.fallback
  /\ util.out.content.present
  /\ StripTargets(util.wrapped, util.siteConfig.strip, 1) # {}

(***************************************************************************)
(* Encoding detection and the correction of encoding names.                *)
(***************************************************************************)
WhollyBeyond(bytes) == bytes.kind # NoDeclaration /\ bytes.before >= 50000

\* C17: a declaration that starts at or after byte 50 000 has no effect on
\* the detected encoding, and when the detector says ASCII or nothing the
\* page resolves to utf-8
C17_WindowHonoured ==
  (util.pc = "detected" /\ WhollyBeyond(util.bytes)) =>
    /\ util.out = detectEncodingFromHtml([util.bytes EXCEPT !.kind = NoDeclaration], util.chardet)
    /\ util.chardet \in {Null, "ascii"} => util.out = Str(Plain("utf-8"))

C17_Witness ==
  /\ util.pc = "detected"
  /\ util.bytes.kind = "charset" /\ util.bytes.name = "koi8-r"
  /\ util.bytes.before = 60000
  /\ util.chardet = "ascii"
  /\ util.out = Str(Plain("utf-8"))

Corrected ==
  {"iso-8850-1", "windows", "win", "cp1251", "cp1252", "latin1", "latin-1", "unicode",
   "utf", "none"}

\* C18: the name is lower-cased and trimmed and then corrected:
\* iso-8850-1 gives iso-8859-1, windows and win give windows-1252, and a
\* name that needs no correction comes back as it is
C18_NamesCorrected ==
  util.pc = "fixed" =>
    LET n == util.encoding.s
    IN /\ n = "iso-8850-1" => util.out = Str(Plain("iso-8859-1"))
       /\ n \in {"windows", "win"} => util.out = Str(Plain("windows-1252"))
       /\ n \notin Corrected => util.out = Str(Plain(n))

\* the same for the names Object.prototype does not define
C18_OwnNamesCorrected ==
  (util.pc = "fixed" /\ util.encoding.s \notin {"constructor", "__proto__"}) => C18_NamesCorrected

\* C20: every continuation request is for the link of the page extracted
\* just before it, resolved against the URL of that page
C20_ResolvedAgainstCurrentPage ==
  \A c \in DOMAIN calls :
    LET k == calls[c]
        nx == NextRequests(k)
    IN \A i \in 1..Len(nx) :
         i <= Len(k.seen) => nx[i].url = makeAbsoluteUrl(k.seen[i].next, k.seen[i].url)

\* the same for the link of the first page only
C20_FirstLinkResolved ==
  \A c \in DOMAIN calls :
    LET k == calls[c]
        nx == NextRequests(k)
    IN (Len(nx) >= 1 /\ Len(k.seen) >= 1)
         => nx[1].url = makeAbsoluteUrl(k.seen[1].next, k.seen[1].url)

\* where node x stands in a sequence of nodes, 0 when it is not there
PositionIn(x, html) ==
  IF \E i \in 1..Len(html) : html[i] = x
  THEN CHOOSE i \in 1..Len(html) : html[i] = x
  ELSE 0

Combined(k) == k.pc = "done" /\ k.stop # "none" /\ Len(k.allPages) > 1

\* C21: when the pages were combined, every top-level node of the body of
\* every page extracted, the first included, is in the returned body, and
\* the nodes stand there in the order of the pages
C21_WholeBodiesCarried ==
  \A c \in DOMAIN calls :
    LET k == calls[c]
        want == Bodies(k.seen, Len(k.seen))
    IN Combined(k)
         => /\ \A p \in 1..Len(want) : PositionIn(want[p], k.ret.html) > 0
            /\ \A p, q \in 1..Len(want) :
                 p < q => PositionIn(want[p], k.ret.html) < PositionIn(want[q], k.ret.html)

\* C22: once the single-page view has replaced the working page, the call
\* requests no continuation page
C22_SinglePagePreempts ==
  \A c \in DOMAIN calls :
    calls[c].singleGot = "content" => NextRequests(calls[c]) = <<>>

(***************************************************************************)
(* Link patterns.                                                          *)
(***************************************************************************)
\* what one node yields: its href, else its value, else its trimmed text
Yield(nd) == LinkOfNodes(<<nd>>)

\* the URL of the first node of a list that yields one
RECURSIVE FirstYield(_, _)
FirstYield(nodes, i) ==
  IF i > Len(nodes) THEN NullLink
  ELSE IF TruthyLink(Yield(nodes[i])) THEN Yield(nodes[i])
  ELSE FirstYield(nodes, i + 1)

\* the URL of the first pattern, gated ones whose gate fails left out, that
\* yields one
RECURSIVE FirstPattern(_, _)
FirstPattern(pats, i) ==
  IF i > Len(pats) THEN NullLink
  ELSE IF pats[i].gate # "fail" /\ TruthyLink(FirstYield(pats[i].nodes, 1))
  THEN FirstYield(pats[i].nodes, 1)
  ELSE FirstPattern(pats, i + 1)

\* C23: for both kinds of link the patterns are tried in order, a pattern
\* whose gate matches nothing is skipped, a pattern gives the URL of its
\* first matched node that yields one, and the first pattern that gives a
\* URL decides
C23_LinkPatternsInOrder ==
  util.pc = "linked" =>
    IF TruthyLink(FirstPattern(util.patterns, 1))
    THEN util.out = FirstPattern(util.patterns, 1)
    ELSE ~TruthyLink(util.out)

\* the same when only the first node of every pattern is looked at
C23_FirstNodeOnly ==
  util.pc = "linked" =>
    LET firsts == [i \in 1..Len(util.patterns) |->
                     [util.patterns[i] EXCEPT !.nodes = IF Len(@) = 0 THEN <<>> ELSE <<@[1]>>]]
    IN IF TruthyLink(FirstPattern(firsts, 1))
       THEN util.out = FirstPattern(firsts, 1)
       ELSE ~TruthyLink(util.out)

(***************************************************************************)
(* The readability fallback against what metadata and rules left.          *)
(***************************************************************************)
\* the extractor after extractMetadata and the rule steps of process
BeforeFallback(doc) ==
  LET m == extractMetadata(reset(Construct(<<>>)), doc)
  IN IF doc.rules.has
     THEN applySiteConfig(extractNextPageUrl(extractSinglePageUrl(m, doc), doc), doc)
     ELSE m

Formatted(d, produced) == IF produced /\ Truthy(d) /\ ParsesAsIso(d) THEN FormatIso(d) ELSE d

Yielding(bytes, kind) ==
  LET I == {i \in 1..Len(bytes.head) :
              /\ bytes.head[i].kind = kind /\ bytes.head[i].charset # Null
              /\ kind = "xml" => i = 1}
  IN IF I = {} THEN Null ELSE bytes.head[CHOOSE i \in I : \A j \in I : i <= j].charset

\* the charset of the first form, in the order XML prolog, meta http-equiv,
\* meta charset, other meta tag, that yields one
FirstForm(bytes) ==
  IF Yielding(bytes, "xml") # Null THEN Yielding(bytes, "xml")
  ELSE IF Yielding(bytes, "httpEquiv") # Null THEN Yielding(bytes, "httpEquiv")
  ELSE IF Yielding(bytes, "charset") # Null THEN Yielding(bytes, "charset")
  ELSE Yielding(bytes, "otherMeta")

WholeDeclarations(bytes) == Len(bytes.head) > 0 /\ bytes.kind = NoDeclaration

\* C26: when the detector says nothing or ASCII, the result is the
\* charset of the first form that yields one, a form that is there without
\* a charset notwithstanding, and utf-8 when none does
C26_FirstYieldingForm ==
  (util.pc = "detected" /\ WholeDeclarations(util.bytes) /\ util.chardet \in {Null, "ascii"})
    => util.out = IF FirstForm(util.bytes) = Null THEN Str(Plain("utf-8"))
                  ELSE fixCommonEncodingMistakes(Plain(FirstForm(util.bytes)))

\* the same for pages without a meta http-equiv that declares no charset
C26_WithoutBareHttpEquiv ==
  (\A i \in 1..Len(util.bytes.head) : util.bytes.head[i] # Declaration("httpEquiv", Null))
    => C26_FirstYieldingForm

(***************************************************************************)
(* The precedence of the encoding sources in fetch.                        *)
(***************************************************************************)
\* C25: the encoding is forceEncoding when set, else utf-8 when detection
\* is off, else the charset of the Content-Type header when it has one,
\* unquoted and corrected and without a look at the content, else what the
\* content gives; the bytes are decoded with the corrected name
C25_EncodingPrecedence ==
  util.pc = "fetched" =>
    LET cl == util.client
        r == util.out
    IN /\ cl.forceEncoding # Unset
            => r.detectedEncoding = Str(cl.forceEncoding) /\ ~r.consulted
       /\ (cl.forceEncoding = Unset /\ ~cl.autoDetectEncoding)
            => r.detectedEncoding = Str(Plain("utf-8")) /\ ~r.consulted
       /\ (cl.forceEncoding = Unset /\ cl.autoDetectEncoding /\ util.header.param # "none")
            => /\ r.detectedEncoding = fixCommonEncodingMistakes(util.header.name)
               /\ ~r.consulted
       /\ (cl.forceEncoding = Unset /\ cl.autoDetectEncoding /\ util.header.param = "none")
            => /\ r.detectedEncoding = detectEncodingFromHtml(util.bytes, util.chardet)
               /\ r.consulted
       /\ r.decodedWith = fixCommonEncodingMistakes(r.detectedEncoding.v)

\* the same for headers that spell the parameter in lower case
C25_LowerCaseParameter ==
  (util.pc = "fetched" /\ util.header.param # "Charset") => C25_EncodingPrecedence

(***************************************************************************)
(* Placeholder sources of lazily loaded images.                            *)
(***************************************************************************)
\* an attribute of the lazyAttrs list is on the image
HadDeferred(img) ==
  \/ img.dataSrc.k # "none" \/ img.dataLazySrc.k # "none" \/ img.dataOriginal.k # "none"
  \/ img.loadingSrc.k # "none" \/ img.dataSrcset.has \/ img.dataLazySrcset.has

\* C27: an image that had a deferred-load attribute does not leave
\* fixLazyImages with a src that looks like a placeholder
C27_PlaceholderRemoved ==
  util.pc = "fixed" =>
    \A i \in 1..Len(util.element) :
      (util.element[i].tag = "img" /\ HadDeferred(util.element[i]))
        => ~(HasValue(util.out[i].src) /\ IsPlaceholder(util.out[i].src))

\* the same for images whose data-src or data-original is there without a value
C27_LeftBehindAttribute ==
  util.pc = "fixed" =>
    \A i \in 1..Len(util.element) :
      (/\ util.element[i].tag = "img"
       /\ util.out[i].dataSrc.k # "none" \/ util.out[i].dataOriginal.k # "none")
        => ~(HasValue(util.out[i].src) /\ IsPlaceholder(util.out[i].src))

(***************************************************************************)
(* Find and replace strings.                                               *)
(***************************************************************************)
\* the text with every occurrence of find, taken from the left, replaced by
\* the characters of replace
RECURSIVE Substituted(_, _, _, _)
Substituted(text, find, replace, p) ==
  IF p > Len(text) THEN <<>>
  ELSE IF p + Len(find) - 1 <= Len(text) /\ SubSeq(text, p, p + Len(find) - 1) = find
  THEN replace \o Substituted(text, find, replace, p + Len(find))
  ELSE <<text[p]>> \o Substituted(text, find, replace, p + 1)

RECURSIVE SubstitutedAll(_, _, _, _)
SubstitutedAll(text, finds, replaces, i) ==
  IF i > Len(finds) THEN text
  ELSE SubstitutedAll(
         Substituted(text, finds[i], IF i <= Len(replaces) THEN replaces[i] ELSE <<>>, 1),
         finds, replaces, i + 1)

\* C28: with find_string and replace_string declared, the text that is
\* parsed is the raw text in which, index by index, every occurrence of
\* find_string[i] is replaced by replace_string[i] (by nothing when there
\* is none), the find strings taken literally
C28_LiteralSubstitution ==
  (util.pc = "parsed" /\ util.siteConfig.hasFind /\ util.siteConfig.hasReplace)
    => util.parsed = SubstitutedAll(util.html, util.siteConfig.find_string,
                                    util.siteConfig.replace_string, 1)

\* a replace string with a dollar sign before "$" or "&"
HasReplacementPattern(r) ==
  \E i \in 1..(Len(r) - 1) : r[i] = "$" /\ r[i + 1] \in {"$", "&"}

\* the same for replace strings without "$$" and "$&"
C28_PlainReplacements ==
  (\A i \in 1..Len(util.siteConfig.replace_string) :
     ~HasReplacementPattern(util.siteConfig.replace_string[i]))
    => C28_LiteralSubstitution

(***************************************************************************)
(* What multi-page assembly leaves of the first page's result.             *)
(***************************************************************************)
\* the fields of a result other than html and the URL fields
KeptFields ==
  {"title", "authors", "date", "language", "image", "isNativeAd", "success", "nextPageUrl"}

\* C29: a call that took in continuation pages returns the first page's
\* title, authors, date, language, image, isNativeAd and success, and its
\* nextPageUrl is the first page's next-page link
C29_OnlyHtmlAssembled ==
  \A c \in DOMAIN calls :
    LET k == calls[c]
    IN (k.pc = "done" /\ Len(k.seen) > 1)
         => /\ \A f \in KeptFields : Returned(k)[f] = Own(k.doc)[f]
            /\ k.ret.nextPageUrl = k.seen[1].next

\* a combined body of two pages whose second page has another next link
\* than the first, or none
C29_Witness ==
  \E c \in DOMAIN calls :
    LET k == calls[c]
    IN /\ k.pc = "done" /\ Len(k.seen) > 1 /\ Len(k.allPages) > 1
       /\ k.ret.html = k.allPages /\ k.ret.html # k.seen[1].html
       /\ k.seen[Len(k.seen)].next # k.seen[1].next

(***************************************************************************)
(* Links are read before the rules change the document.                    *)
(***************************************************************************)
\* the link the patterns give on the document as it was parsed
LinkOnParsed(patterns) ==
  LET hits == {i \in 1..Len(patterns) : Len(evaluateXPath(patterns[i], util.document, TRUE)) > 0}
  IN IF hits = {} THEN NoTreeLink
     ELSE LinkOfNode(evaluateXPath(patterns[CHOOSE i \in hits : \A j \in hits : i <= j],
                                   util.document, TRUE)[1])

\* C30: the next-page and the single-page link are those of the document
\* as parsed, whatever wrap_in and strip do to it afterwards
C30_LinksBeforeRules ==
  util.pc = "processed" =>
    /\ util.out.nextPageUrl = LinkOnParsed(util.siteConfig.next_page_link)
    /\ util.out.singlePageUrl = LinkOnParsed(util.siteConfig.single_page_link)

\* an href is reported as the next page although strip removed its element
\* from the document and the body does not hold it
C30_Witness ==
  /\ util.pc = "processed"
  /\ util.out.nextPageUrl.k = "href"
  /\ util.out.nextPageUrl.of[1] \in StripTargets(util.document, util.siteConfig.strip, 1)
  /\ util.out.nextPageUrl.of[1] \notin IdsOf(util.out.rules.document)
  /\ util.out.rules.content.present
  /\ util.out.nextPageUrl.of[1] \notin IdsOf(util.out.rules.content.nodes)

====
